---- MODULE Spec2Model ----
(***************************************************************************)
(* Bulk content importer of the Gujarati learning application              *)
(* (src/src/components/CSVUploader.tsx, second CSVUploader component) and  *)
(* the remote collections it writes (quizzes, vocabulary, dialogues).      *)
(*                                                                         *)
(* Text is a sequence of characters.  A character is a one-element string; *)
(* a longer string such as "Title" stands for a run of ordinary letters    *)
(* (no comma, quote, newline or blank among them), which every string      *)
(* operation of the importer treats like a single ordinary character.      *)
(***************************************************************************)
EXTENDS Integers, Sequences, FiniteSets, TLC

VARIABLES
  quizzes,      \* remote collection public.quizzes; a row's id is its position
  vocabulary,   \* remote collection public.vocabulary
  dialogues,    \* remote collection public.dialogues
  user,         \* per uploader: the signed-in user of useAuth(), or NoUser
  uploadType,   \* per uploader: the uploadType prop
  file,         \* per uploader: the selected file (index into Files), 0 = null
  uploading,    \* per uploader: the uploading flag
  pc,           \* per uploader: the await the running import is suspended at
  run,          \* per uploader: the locals of the running (or last) import
  toast,        \* per uploader: the last toast shown
  hist,         \* per uploader: history of clean repeated imports (ghost)
  outstanding,  \* per uploader: remote calls issued and not yet answered
  menu,         \* the files the user may pick from (fixed in a behaviour)
  imports,      \* imports started so far (ghost, bounded)
  selects,      \* file selections and clearings so far (ghost, bounded)
  failures,     \* remote failures injected so far (ghost, bounded)
  \* Games page (src/src/pages/Games.tsx, first component)
  page,         \* the React state of the mounted Games page
  view,         \* the state as of the last committed render: what the
                \*   handlers attached to the screen read
  timers,       \* pending setTimeout(() => nextQuestion(), 3000) closures
  finishing,    \* finishGame calls suspended at an await
  fetching,     \* the page's fetchCompletedQuizzes call is in flight
  quiz_attempts,\* remote collection public.quiz_attempts (of the player)
  points,       \* profiles.points of the player
  log,          \* ghost: what the games did so far, and the bounded counts
  \* time-tracking hook (src/unnamed/part_008)
  tracker,      \* the mounted instance of useTimeTracking: its user and refs
  sessionCalls, \* remote calls of startSession and endSession in flight
  app_usage_sessions, \* remote collection public.app_usage_sessions
  trackLog,     \* ghost: the bounded counts of the hook's environment
  \* timed Quiz page (src/unnamed/part_005)
  timed,        \* the React state of the Quiz page
  submitting,   \* handleSubmitQuiz calls suspended at their insert
  timed_attempts, \* the rows of public.quiz_attempts the Quiz page inserted
  timedLog,     \* ghost: the bounded counts of the page's environment
  \* Word Bank page (src/unnamed/part_003) and the trigger on_word_learned
  bank,         \* the React state of the Word Bank page
  marking,      \* markWordLearned calls suspended at their update or insert
  refreshing,   \* a fetchLearningProgress call is in flight
  learning_progress, \* remote collection public.learning_progress (word_bank)
  bankPoints,   \* profiles.points of the learner
  bankLog,      \* ghost: the marks that succeeded, and the bounded counts
  \* Flashcards page (src/src/pages/Flashcards.tsx)
  deck,         \* the React state of the Flashcards page
  answering,    \* markAnswer calls suspended at their update
  flashcards,   \* remote collection public.flashcards (of the learner)
  deckLog       \* ghost: the marks that succeeded, and the bounded counts

\* the Games page and the rows it reads and writes
games == <<page, view, timers, finishing, fetching, quiz_attempts, points, log>>

\* the time-tracking hook and the rows it writes
tracking == <<tracker, sessionCalls, app_usage_sessions, trackLog>>

\* the Quiz page and the rows it writes
quizPage == <<timed, submitting, timed_attempts, timedLog>>

\* the Word Bank page, the rows it writes and the points of its trigger
wordBank == <<bank, marking, refreshing, learning_progress, bankPoints, bankLog>>

\* the Flashcards page and the rows it writes
cards == <<deck, answering, flashcards, deckLog>>

\* everything outside the importer
others == <<games, tracking, quizPage, wordBank, cards>>

vars == <<quizzes, vocabulary, dialogues, user, uploadType,
          file, uploading, pc, run, toast, hist, outstanding, menu,
          imports, selects, failures, others>>

\* the variables of the importer
importer == <<quizzes, vocabulary, dialogues, user, uploadType,
              file, uploading, pc, run, toast, hist, outstanding, menu,
              imports, selects, failures>>

\* everything outside the Games page, and outside the time-tracking hook
exceptGames == <<importer, tracking, quizPage, wordBank, cards>>
exceptTracking == <<importer, games, quizPage, wordBank, cards>>
exceptQuizPage == <<importer, games, tracking, wordBank, cards>>
exceptWordBank == <<importer, games, tracking, quizPage, cards>>
exceptCards == <<importer, games, tracking, quizPage, wordBank>>

-----------------------------------------------------------------------------
(* JavaScript values and string operations used by the importer *)

\* undefined, as a cell value: a mark that occurs in no text
Undefined == <<"(undefined)">>

IsSpace(c) == c \in {" ", "\t", "\n", "\r"}

RECURSIVE trimStart(_)
trimStart(s) ==
  IF s # <<>> /\ IsSpace(Head(s)) THEN trimStart(Tail(s)) ELSE s

RECURSIVE trimEnd(_)
trimEnd(s) ==
  IF s # <<>> /\ IsSpace(s[Len(s)]) THEN trimEnd(SubSeq(s, 1, Len(s) - 1)) ELSE s

\* String.prototype.trim
trim(s) == trimEnd(trimStart(s))

\* String.prototype.split with a one-character separator
RECURSIVE split(_, _)
split(s, sep) ==
  IF \E i \in 1..Len(s) : s[i] = sep
  THEN LET i == CHOOSE k \in 1..Len(s) :
                  s[k] = sep /\ \A j \in 1..(k - 1) : s[j] # sep
       IN  <<SubSeq(s, 1, i - 1)>> \o split(SubSeq(s, i + 1, Len(s)), sep)
  ELSE <<s>>

NotQuote(c) == c # "\""

\* val.replace(/"/g, '')
replaceQuotes(s) == SelectSeq(s, NotQuote)

\* (variant: the text is split without being trimmed first)
linesOfUntrimmed(csvText) == split(csvText, "\n")

\* csvText.trim().split('\n')
linesOf(csvText) == split(trim(csvText), "\n")

\* the pieces of s between the commas that stand outside quotes
RECURSIVE quotedCellsFrom(_, _, _, _)
quotedCellsFrom(s, i, inQuotes, cell) ==
  IF i > Len(s) THEN <<cell>>
  ELSE IF s[i] = "," /\ ~inQuotes
  THEN <<cell>> \o quotedCellsFrom(s, i + 1, FALSE, <<>>)
  ELSE quotedCellsFrom(s, i + 1,
                       IF s[i] = "\"" THEN ~inQuotes ELSE inQuotes,
                       Append(cell, s[i]))

\* (variant: a comma inside quotes does not end the cell)
valuesOfQuoted(line) ==
  LET cells == quotedCellsFrom(line, 1, FALSE, <<>>)
  IN  [i \in 1..Len(cells) |-> trim(replaceQuotes(cells[i]))]

\* lines[i].split(',').map(val => val.replace(/"/g, '').trim())
valuesOf(line) ==
  LET cells == split(line, ",")
  IN  [i \in 1..Len(cells) |-> trim(replaceQuotes(cells[i]))]

\* values[i] with the 0-based index of the source; undefined past the end
At(values, i) == IF i + 1 <= Len(values) THEN values[i + 1] ELSE Undefined

\* JavaScript truthiness of a cell: undefined and the empty string are falsy
Truthy(v) == v # Undefined /\ v # <<>>

\* a || b
OrElse(a, b) == IF Truthy(a) THEN a ELSE b

-----------------------------------------------------------------------------
(* Plain objects used as maps: quizGroups, dialogueGroups *)

\* Property names every plain object inherits from Object.prototype.  Reading
\* one of them on `{}` yields a truthy value that is not an array.
ObjectPrototypeKeys ==
  { <<"constructor">>, <<"toString">>, <<"valueOf">>, <<"hasOwnProperty">>,
    <<"isPrototypeOf">>, <<"propertyIsEnumerable">>, <<"toLocaleString">>,
    <<"__proto__">> }

Digits == <<"0", "1", "2", "3", "4", "5", "6", "7", "8", "9">>

IsDigit(c) == \E i \in 1..Len(Digits) : Digits[i] = c

DigitVal(c) == (CHOOSE i \in 1..Len(Digits) : Digits[i] = c) - 1

RECURSIVE DecimalVal(_)
DecimalVal(s) ==
  IF s = <<>> THEN 0
  ELSE 10 * DecimalVal(SubSeq(s, 1, Len(s) - 1)) + DigitVal(s[Len(s)])

\* An array index: a canonical decimal numeral below 2^32 - 1.  Own property
\* keys that are array indices are enumerated first, in ascending order.
\* Numerals of up to nine digits are all below that limit; longer keys do not
\* occur in the inputs of this model and are taken as plain strings.
IsArrayIndex(key) ==
  /\ key # <<>>
  /\ Len(key) < Len(Digits)
  /\ \A i \in 1..Len(key) : IsDigit(key[i])
  /\ (Len(key) = 1 \/ key[1] # "0")

\* groups: the own properties of the object in creation order, each
\* [key |-> title, items |-> array].  hasKey: the property exists.
hasKey(groups, key) == \E i \in 1..Len(groups) : groups[i].key = key

keyIndex(groups, key) == CHOOSE i \in 1..Len(groups) : groups[i].key = key

\* the index keys of groups, ascending
RECURSIVE sortedIndexKeys(_, _)
sortedIndexKeys(groups, done) ==
  LET left == { i \in 1..Len(groups) :
                  IsArrayIndex(groups[i].key) /\ i \notin done }
  IN  IF left = {} THEN <<>>
      ELSE LET m == CHOOSE i \in left :
                      \A j \in left :
                        DecimalVal(groups[i].key) <= DecimalVal(groups[j].key)
           IN  <<groups[m]>> \o sortedIndexKeys(groups, done \cup {m})

IsStringKeyed(g) == ~IsArrayIndex(g.key)

\* Object.entries(groups): array-index keys ascending, then the others in
\* creation order
entries(groups) == sortedIndexKeys(groups, {}) \o SelectSeq(groups, IsStringKeyed)

\* the entries the second loop does not pass over:
\* `if (questions.length === 0) continue;`
HasItems(g) == g.items # <<>>
processedEntries(groups) == SelectSeq(entries(groups), HasItems)

-----------------------------------------------------------------------------
(* parseQuizCSV, first loop: rows to quizGroups *)

MinQuizCells == 10

DefaultQuizTitle == <<"Imported Quiz">>

\* (variant: a row is dropped only when both question texts are missing)
quizRowSkippedBoth(values) ==
  \/ Len(values) < MinQuizCells
  \/ (~Truthy(At(values, 3)) /\ ~Truthy(At(values, 4)))

\* the row is dropped by one of the two `continue` statements
quizRowSkipped(values) ==
  \/ Len(values) < MinQuizCells
  \/ ~Truthy(At(values, 3))
  \/ ~Truthy(At(values, 4))

quizRowTitle(values) == OrElse(At(values, 0), DefaultQuizTitle)

\* (variant: the answer is read one column too early)
quizQuestionShifted(values) ==
  [ question          |-> At(values, 3) \o <<" ", "/", " ">> \o At(values, 4),
    question_gujarati |-> At(values, 3),
    options           |-> SelectSeq(<<At(values, 5), At(values, 6),
                                      At(values, 7), At(values, 8)>>, Truthy),
    correct_answer    |-> At(values, 8),
    explanation       |-> <<>> ]

\* (variant: empty option cells are kept)
quizQuestionAllOptions(values) ==
  [ question          |-> At(values, 3) \o <<" ", "/", " ">> \o At(values, 4),
    question_gujarati |-> At(values, 3),
    options           |-> <<At(values, 5), At(values, 6), At(values, 7), At(values, 8)>>,
    correct_answer    |-> At(values, 9),
    explanation       |-> <<>> ]

\* the object pushed for an accepted row
quizQuestion(values) ==
  [ question          |-> At(values, 3) \o <<" ", "/", " ">> \o At(values, 4),
    question_gujarati |-> At(values, 3),
    options           |-> SelectSeq(<<At(values, 5), At(values, 6),
                                      At(values, 7), At(values, 8)>>, Truthy),
    correct_answer    |-> At(values, 9),
    explanation       |-> <<>> ]

\* (variant: the array of a title is replaced instead of extended)
pushReplacing(acc, title, item) ==
  IF acc.thrown THEN acc
  ELSE IF hasKey(acc.groups, title)
  THEN LET i == keyIndex(acc.groups, title)
       IN  [acc EXCEPT !.groups[i].items = <<item>>]
  ELSE IF title \in ObjectPrototypeKeys
  THEN [acc EXCEPT !.thrown = TRUE]
  ELSE [acc EXCEPT !.groups = Append(@, [key |-> title, items |-> <<item>>])]

\* quizGroups[title].push(item), creating the array first when
\* !quizGroups[title].  For an inherited property name the read is truthy,
\* nothing is created, and push is not a function: a TypeError is thrown.
pushInto(acc, title, item) ==
  IF acc.thrown THEN acc
  ELSE IF hasKey(acc.groups, title)
  THEN LET i == keyIndex(acc.groups, title)
       IN  [acc EXCEPT !.groups[i].items = Append(@, item)]
  ELSE IF title \in ObjectPrototypeKeys
  THEN [acc EXCEPT !.thrown = TRUE]
  ELSE [acc EXCEPT !.groups = Append(@, [key |-> title, items |-> <<item>>])]

\* the loop `for (let i = 1; i < lines.length; i++)` from line index i
\* (1-based position i + 1) on
RECURSIVE quizGroupsFrom(_, _, _)
quizGroupsFrom(lines, i, acc) ==
  IF acc.thrown \/ i + 1 > Len(lines) THEN acc
  ELSE LET values == valuesOf(lines[i + 1])
       IN  IF quizRowSkipped(values)
           THEN quizGroupsFrom(lines, i + 1, acc)
           ELSE quizGroupsFrom(lines, i + 1,
                  pushInto(acc, quizRowTitle(values), quizQuestion(values)))

EmptyGroups == [thrown |-> FALSE, groups |-> <<>>]

\* the first line is the header: the loops start at index 1
FirstDataLine == 1

quizGroupsOf(lines) == quizGroupsFrom(lines, FirstDataLine, EmptyGroups)

-----------------------------------------------------------------------------
(* parseDialogueCSV, first loop: rows to dialogueGroups *)

MinDialogueCells == 5

DefaultDialogueTitle == <<"Imported Dialogue">>

\* (variant: only the number of cells is tested)
dialogueRowSkippedWhenShort(values) == Len(values) < MinDialogueCells

dialogueRowSkipped(values) ==
  \/ Len(values) < MinDialogueCells
  \/ ~Truthy(At(values, 1))
  \/ ~Truthy(At(values, 2))
  \/ ~Truthy(At(values, 3))

dialogueRowTitle(values) == OrElse(At(values, 0), DefaultDialogueTitle)

dialogueTurn(values) ==
  [ speaker         |-> At(values, 1),
    english         |-> At(values, 2),
    gujarati        |-> At(values, 3),
    transliteration |-> OrElse(At(values, 4), <<>>) ]

RECURSIVE dialogueGroupsFrom(_, _, _)
dialogueGroupsFrom(lines, i, acc) ==
  IF acc.thrown \/ i + 1 > Len(lines) THEN acc
  ELSE LET values == valuesOf(lines[i + 1])
       IN  IF dialogueRowSkipped(values)
           THEN dialogueGroupsFrom(lines, i + 1, acc)
           ELSE dialogueGroupsFrom(lines, i + 1,
                  pushInto(acc, dialogueRowTitle(values), dialogueTurn(values)))

dialogueGroupsOf(lines) == dialogueGroupsFrom(lines, FirstDataLine, EmptyGroups)

-----------------------------------------------------------------------------
(* parseVocabularyCSV: the per-row part *)

MinVocabularyCells == 3

DefaultDifficulty == 1

NaN == -1000000

LowerHex == <<"a", "b", "c", "d", "e", "f">>
UpperHex == <<"A", "B", "C", "D", "E", "F">>

HexVal(c) ==
  IF IsDigit(c) THEN DigitVal(c)
  ELSE IF \E i \in 1..Len(LowerHex) : LowerHex[i] = c
  THEN 9 + (CHOOSE i \in 1..Len(LowerHex) : LowerHex[i] = c)
  ELSE IF \E i \in 1..Len(UpperHex) : UpperHex[i] = c
  THEN 9 + (CHOOSE i \in 1..Len(UpperHex) : UpperHex[i] = c)
  ELSE NaN

\* the longest prefix of s made of digits of the radix, as a number
RECURSIVE digitsPrefix(_, _, _)
digitsPrefix(s, radix, acc) ==
  IF s = <<>> \/ HexVal(Head(s)) = NaN \/ HexVal(Head(s)) >= radix THEN acc
  ELSE digitsPrefix(Tail(s), radix, acc * radix + HexVal(Head(s)))

startsWithDigit(s, radix) ==
  s # <<>> /\ HexVal(Head(s)) # NaN /\ HexVal(Head(s)) < radix

\* parseInt(v) with no radix: blanks skipped, an optional sign, an optional
\* 0x prefix, then the longest run of digits; NaN when there is none
parseInt(v) ==
  LET s0   == IF v = Undefined THEN <<"u", "n", "d", "e", "f", "i", "n", "e", "d">>
              ELSE trimStart(v)
      neg  == s0 # <<>> /\ Head(s0) = "-"
      s1   == IF s0 # <<>> /\ Head(s0) \in {"-", "+"} THEN Tail(s0) ELSE s0
      hex  == Len(s1) >= 2 /\ s1[1] = "0" /\ s1[2] \in {"x", "X"}
      s2   == IF hex THEN SubSeq(s1, 3, Len(s1)) ELSE s1
      base == IF hex THEN 16 ELSE 10
  IN  IF ~startsWithDigit(s2, base) THEN NaN
      ELSE IF neg THEN 0 - digitsPrefix(s2, base, 0)
      ELSE digitsPrefix(s2, base, 0)

\* parseInt(values[3]) || 1 : NaN and 0 are falsy
difficultyOf(values) ==
  LET n == parseInt(At(values, 3))
  IN  IF n = NaN \/ n = 0 THEN DefaultDifficulty ELSE n

vocabularyRowSkipped(values) ==
  \/ Len(values) < MinVocabularyCells
  \/ ~Truthy(At(values, 0))
  \/ ~Truthy(At(values, 1))

vocabularyEntry(values, owner) ==
  [ english_word             |-> At(values, 0),
    gujarati_word            |-> At(values, 1),
    gujarati_transliteration |-> OrElse(At(values, 2), <<>>),
    difficulty_level         |-> difficultyOf(values),
    created_by               |-> owner ]

\* the first line index >= i (0-based) whose row is not skipped, or
\* lines.length when there is none
RECURSIVE nextVocabularyRow(_, _)
nextVocabularyRow(lines, i) ==
  IF i + 1 > Len(lines) THEN Len(lines)
  ELSE IF vocabularyRowSkipped(valuesOf(lines[i + 1]))
  THEN nextVocabularyRow(lines, i + 1)
  ELSE i

-----------------------------------------------------------------------------
(* Input files offered to the uploaders *)

RECURSIVE join(_, _)
join(parts, sep) ==
  IF parts = <<>> THEN <<>>
  ELSE IF Len(parts) = 1 THEN parts[1]
  ELSE parts[1] \o <<sep>> \o join(Tail(parts), sep)

Row(cells) == join(cells, ",")
Text(rows) == join(rows, "\n")

Header == <<"header">>

\* a well-formed quiz row: title, Type, Desc, two question texts, A-D, answer
QRow(title, guj, eng) ==
  Row(<<title, <<"Type">>, <<"Desc">>, guj, eng,
        <<"A">>, <<"B">>, <<"C">>, <<"D">>, <<"A">>>>)

\* the row of the specification's example
ExampleRow == QRow(<<"Title">>, <<"Q1-guj">>, <<"Q1-eng">>)

\* nine cells: the answer column is missing
ShortQRow(title, guj, eng) ==
  Row(<<title, <<"Type">>, <<"Desc">>, guj, eng,
        <<"A">>, <<"B">>, <<"C">>, <<"D">>>>)

VRow(eng, guj, level) == Row(<<eng, guj, <<"tr">>, level>>)

DRow(title, speaker, eng, guj) == Row(<<title, speaker, eng, guj, <<"tr">>>>)

Csv(kind, text) == [isCsv |-> TRUE, kind |-> kind, text |-> text]

QuizTexts ==
  << <<>>,                                                      \* empty file
     Header,                                                    \* header only
     Text(<<Header, <<" ">>, <<>>>>),                           \* header, blank lines
     ExampleRow,                                                \* the example, no header
     Text(<<Header, ExampleRow>>),
     Text(<<Header, QRow(<<"Title">>, <<"g1">>, <<"e1">>),
                    QRow(<<"Title">>, <<>>, <<"e2">>),
                    QRow(<<"Other">>, <<"g3">>, <<"e3">>),
                    QRow(<<"Title">>, <<"g4">>, <<"e4">>)>>),
     Text(<<Header, ShortQRow(<<"Title">>, <<"g1">>, <<"e1">>),
                    QRow(<<"Title">>, <<"g2">>, <<"e2">>)>>),
     Text(<<Header, QRow(<<"2">>, <<"g1">>, <<"e1">>),
                    QRow(<<"1">>, <<"g2">>, <<"e2">>)>>),
     Text(<<Header, QRow(<<"constructor">>, <<"g1">>, <<"e1">>)>>),
     Text(<<Header, QRow(<<>>, <<"g1">>, <<"e1">>),
                    QRow(<<"constructor">>, <<"g2">>, <<>>)>>),
     Text(<<Header, ShortQRow(<<"Title">>, <<"g1">>, <<"e1">>), \* no row accepted
                    QRow(<<"Title">>, <<>>, <<"e2">>)>>),
     Text(<<Header, Row(<< <<"Title">>, <<"Type">>, <<"Desc">>, <<"g1">>, <<"e1">>,
                           <<"A">>, <<>>, <<"C">>, <<>>, <<"C">> >>)>>) >>

\* header, then  Title,Type,"De,sc",g1,e1,A,B,C,D,A
CommaTexts ==
  << Text(<<Header, Row(<< <<"Title">>, <<"Type">>,
                           <<"\"", "De", ",", "sc", "\"">>, <<"g1">>, <<"e1">>,
                           <<"A">>, <<"B">>, <<"C">>, <<"D">>, <<"A">> >>)>>) >>

VocabularyTexts ==
  << Header,
     Text(<<Header, VRow(<<"cat">>, <<"biladi">>, <<"3">>),
                    VRow(<<"dog">>, <<>>, <<"2">>),
                    VRow(<<"sun">>, <<"suraj">>, <<"7">>)>>),
     Text(<<Header, VRow(<<"cat">>, <<"biladi">>, <<>>),
                    Row(<<<<"dog">>, <<"kutro">>>>),
                    VRow(<<"cat">>, <<"biladi">>, <<"x">>)>>),
     \* header, then  "cat", bil"adi ,tr,3
     Text(<<Header, VRow(<<"\"", "cat", "\"">>,
                         <<" ", "bil", "\"", "adi", " ">>, <<"3">>)>>) >>

DialogueTexts ==
  << Header,
     Text(<<Header, DRow(<<"Greeting">>, <<"Asha">>, <<"hello">>, <<"kemcho">>),
                    DRow(<<"Greeting">>, <<>>, <<"fine">>, <<"majama">>),
                    DRow(<<"Market">>, <<"Ravi">>, <<"howmuch">>, <<"ketla">>)>>),
     Text(<<Header, DRow(<<"Greeting">>, <<"Asha">>, <<"hello">>, <<"kemcho">>),
                    Row(<<<<"Greeting">>, <<"Ravi">>, <<"hi">>, <<"kem">>>>)>>),
     Text(<<Header, DRow(<<"Greeting">>, <<>>, <<"fine">>, <<"majama">>),
                    Row(<<<<"Greeting">>, <<"Ravi">>, <<"hi">>, <<"kem">>>>)>>) >>

Kinds == {"quiz", "vocabulary", "dialogue"}

TextsOf(kind) ==
  CASE kind = "quiz" -> QuizTexts
    [] kind = "vocabulary" -> VocabularyTexts
    [] kind = "dialogue" -> DialogueTexts

\* a file that is not a CSV (neither the MIME type nor the extension)
NotCsv == [isCsv |-> FALSE, kind |-> "none", text |-> <<>>]

Files ==
  [i \in 1..Len(QuizTexts) |-> Csv("quiz", QuizTexts[i])]
  \o [i \in 1..Len(VocabularyTexts) |-> Csv("vocabulary", VocabularyTexts[i])]
  \o [i \in 1..Len(DialogueTexts) |-> Csv("dialogue", DialogueTexts[i])]
  \o [i \in 1..Len(CommaTexts) |-> Csv("quiz", CommaTexts[i])]
  \o <<NotCsv>>

-----------------------------------------------------------------------------
(* Bounds of the model *)

MaxImports == 2     \* imports started, over all uploaders
MaxSelects == 2     \* files selected or cleared, over all uploaders
MaxFailures == 1    \* remote calls that fail for a reason outside the model

Uploaders == {"A", "B"}

NoUser == "nobody"
Users == {"u1", "u2"}

-----------------------------------------------------------------------------
(* The remote store: select-by-filter, insert, update-by-id *)

\* ids of the quizzes with this title and owner
quizMatches(rows, title, owner) ==
  { i \in 1..Len(rows) : rows[i].title = title /\ rows[i].created_by = owner }

vocabularyMatches(rows, eng, guj) ==
  { i \in 1..Len(rows) : rows[i].english_word = eng /\ rows[i].gujarati_word = guj }

\* (variant: the lookup never reports a row)
maybeSingleNull(matches, ok) == [data |-> 0, error |-> ~ok]

\* .maybeSingle(): the row when exactly one matches, null (0) when none does,
\* and an error with null data when several do or when the call fails
maybeSingle(matches, ok) ==
  IF ~ok \/ Cardinality(matches) > 1 THEN [data |-> 0, error |-> TRUE]
  ELSE IF matches = {} THEN [data |-> 0, error |-> FALSE]
  ELSE [data |-> CHOOSE i \in matches : TRUE, error |-> FALSE]

\* CHECK (difficulty_level BETWEEN 1 AND 5), on quizzes, vocabulary, dialogues
MinLevel == 1
MaxLevel == 5
levelAllowed(n) == MinLevel <= n /\ n <= MaxLevel

\* the row inserted for a new quiz
QuizDifficulty == 2
QuizTimeLimit == 15
newQuiz(title, questions, owner) ==
  [ title            |-> title,
    description      |-> [updated |-> FALSE, title |-> title, count |-> Len(questions)],
    quiz_type        |-> "game",
    difficulty_level |-> QuizDifficulty,
    time_limit       |-> QuizTimeLimit,
    questions        |-> questions,
    created_by       |-> owner ]

\* (variant: the update also writes the insert's default difficulty)
updatedQuizWithDefaults(row, title, questions) ==
  [row EXCEPT !.questions = questions,
              !.description = [updated |-> TRUE, title |-> title,
                               count |-> Len(questions)],
              !.difficulty_level = QuizDifficulty]

\* .update({questions, description}).eq('id', id)
updatedQuiz(row, title, questions) ==
  [row EXCEPT !.questions = questions,
              !.description = [updated |-> TRUE, title |-> title,
                               count |-> Len(questions)]]

DialogueDifficulty == 2
newDialogue(title, dialogueData, owner) ==
  [ title            |-> title,
    description      |-> [updated |-> FALSE, title |-> title, count |-> Len(dialogueData)],
    scenario         |-> "Imported conversation",
    dialogue_data    |-> dialogueData,
    difficulty_level |-> DialogueDifficulty,
    created_by       |-> owner ]

\* a quiz another teacher or an earlier session left in the store
OldQuiz(owner) ==
  [ title            |-> <<"Title">>,
    description      |-> [updated |-> FALSE, title |-> <<"old">>, count |-> 0],
    quiz_type        |-> "matching",
    difficulty_level |-> 4,
    time_limit       |-> 60,
    questions        |-> <<>>,
    created_by       |-> owner ]

OldWord ==
  [ english_word             |-> <<"cat">>,
    gujarati_word            |-> <<"biladi">>,
    gujarati_transliteration |-> <<"old">>,
    difficulty_level         |-> 5,
    created_by               |-> "u2" ]

\* (variant: a failed insert also takes back the row written before it)
insertOrRollBack(rows, row, ok) ==
  IF ok THEN Append(rows, row)
  ELSE IF rows = <<>> THEN rows
  ELSE SubSeq(rows, 1, Len(rows) - 1)

\* .insert(row): the row is added unless the call fails
insertInto(rows, row, ok) == IF ok THEN Append(rows, row) ELSE rows

\* the (title, owner) pairs of the quizzes
quizPairs(rows) == { <<rows[i].title, rows[i].created_by>> : i \in 1..Len(rows) }

-----------------------------------------------------------------------------
(* State of an uploader *)

NoRun ==
  [ csv |-> 0, groups |-> <<>>, k |-> 0, existing |-> 0,
    createdCount |-> 0, updatedCount |-> 0,
    calls |-> <<>>,      \* ghost: the remote calls of this import, in order
    dirty |-> FALSE,     \* ghost: another uploader wrote since this import began
    outcome |-> "none", error |-> "" ]

NoToast == [title |-> "", message |-> "", created |-> 0, updated |-> 0]

NoHist == [file |-> 0, n |-> 0, pairs |-> {}, prevPairs |-> {},
           size |-> 0, prevSize |-> 0]

EmptyInputError == "CSV must have at least a header row and one data row"
PushTypeError == "push is not a function"

-----------------------------------------------------------------------------
(* Games page: the quizzes it offers and its state after mounting *)

\* a question of a game: two options, one of them the correct answer
Question(correct) == [options |-> <<"A", "B">>, correct_answer |-> correct]

\* the rows fetchGames loads: a game of one question and a game of two
GameQuizzes ==
  << [questions |-> <<Question("A")>>],
     [questions |-> <<Question("A"), Question("B")>>] >>

GameIds == 1..Len(GameQuizzes)

\* currentGame = null, gameStartTime = null
NoGame == 0
NoDate == "null"

\* useState(15), and setTimeLeft(15) of startGame and nextQuestion
TimePerQuestion == 15

\* gameSession.score grows by this for a correct answer
PointsPerCorrect == 10

NoSession == [score |-> 0, questionsCorrect |-> 0, totalQuestions |-> 0]

\* the useState initial values; play (ghost) numbers the games started
InitialPage ==
  [ play |-> 0,
    currentGame |-> NoGame, currentQuestion |-> 0, selectedAnswer |-> "",
    gameSession |-> NoSession, gameStartTime |-> NoDate,
    gameComplete |-> FALSE, timeLeft |-> TimePerQuestion,
    showAnswer |-> FALSE, isAnswered |-> FALSE,
    shuffledQuestions |-> <<>>, completedQuizzes |-> {} ]

\* ghost: the point awards so far, the questions the current game has
\* left and whether it has called finishGame, whether any game has left a
\* question twice or called finishGame twice, and the bounded counts
NoLog == [awards |-> <<>>, left |-> {}, finished |-> FALSE,
          again |-> FALSE, refinished |-> FALSE,
          plays |-> 0, reloads |-> 0, failed |-> 0]

\* the page just mounted for a player without attempts: the mount effect
\* has issued fetchCompletedQuizzes
initialGames ==
  /\ page = InitialPage
  /\ view = InitialPage
  /\ timers = <<>>
  /\ finishing = <<>>
  /\ fetching = TRUE
  /\ quiz_attempts = <<>>
  /\ points = 0
  /\ log = NoLog

-----------------------------------------------------------------------------
(* Time-tracking hook: its state before the component mounts *)

\* sessionIdRef.current = null, startTimeRef.current = null
NoSessionId == 0

NoTracker ==
  [ inst |-> 0, mounted |-> FALSE, user |-> "",
    sessionIdRef |-> NoSessionId, startTimeRef |-> NoDate,
    isTracking |-> FALSE ]

initialTracking ==
  /\ tracker = NoTracker
  /\ sessionCalls = <<>>
  /\ app_usage_sessions = <<>>
  /\ trackLog = [mounts |-> 0, changes |-> 0, failed |-> 0]

-----------------------------------------------------------------------------
(* Timed Quiz page: the quiz it offers and its state after mounting *)

\* the rows fetchQuizzes loads: a quiz of two questions with a time limit
\* of one minute
TimedQuizzes ==
  << [ questions |-> <<Question("A"), Question("B")>>, time_limit |-> 1 ] >>

\* selectedQuiz = null
NoQuiz == 0

\* answers = {} for a quiz of n questions: no index has an answer
NoAnswers(n) == [k \in 0..(n - 1) |-> ""]

\* the useState initial values; start (ghost) numbers the quizzes started,
\* effectAnswers is the answers of the render the timer effect last ran in
InitialQuizPage ==
  [ start |-> 0, selectedQuiz |-> NoQuiz, currentQuestion |-> 0,
    answers |-> NoAnswers(0), quizStartTime |-> NoDate,
    timeRemaining |-> 0, effectAnswers |-> NoAnswers(0) ]

initialQuizPage ==
  /\ timed = InitialQuizPage
  /\ submitting = <<>>
  /\ timed_attempts = <<>>
  /\ timedLog = [starts |-> 0, clicks |-> 0, failed |-> 0]

-----------------------------------------------------------------------------
(* Word Bank page and Flashcards page: their items and their first state *)

\* the rows fetchWordBankItems loads for the active tab
WordBankItems == <<"w1", "w2">>

\* no learning_progress row for an item
NoProgress == [exists |-> FALSE, is_learned |-> FALSE, times_reviewed |-> 0]

NoRows == [w \in 1..Len(WordBankItems) |-> NoProgress]

\* the Word Bank page just mounted for a learner without progress rows: the
\* items are loaded, the mount effect has issued fetchLearningProgress
initialWordBank ==
  /\ bank = [currentIndex |-> 0, showAnswer |-> FALSE, learningProgress |-> NoRows]
  /\ marking = <<>>
  /\ refreshing = TRUE
  /\ learning_progress = NoRows
  /\ bankPoints = 0
  /\ bankLog = [marked |-> <<>>, marks |-> 0, failed |-> 0]

\* a flashcards row as inserted by createFlashcardsFromVocabulary
NewCard == [is_learned |-> FALSE, times_reviewed |-> 0]

\* the learner's flashcards rows, in the order fetchFlashcards returns them
Deck == <<NewCard, NewCard>>

\* the Flashcards page after fetchFlashcards has loaded the learner's cards
initialCards ==
  /\ deck = [currentIndex |-> 0, showAnswer |-> FALSE, flashcards |-> Deck]
  /\ answering = <<>>
  /\ flashcards = Deck
  /\ deckLog = [marked |-> [k \in 1..Len(Deck) |-> 0], unlearned |-> FALSE,
                marks |-> 0, failed |-> 0]

\* Both uploaders are of one kind: imports of different kinds touch
\* different collections and do not affect each other.
InitCommon ==
  /\ uploadType \in [Uploaders -> Kinds]
  /\ uploadType["A"] = uploadType["B"]
  /\ user \in [Uploaders -> Users \cup {NoUser}]
  /\ user["A"] = "u1"
  /\ quizzes \in {<<>>, <<OldQuiz("u1")>>, <<OldQuiz("u2")>>}
  /\ vocabulary \in {<<>>, <<OldWord>>}
  /\ uploadType["A"] # "quiz" => quizzes = <<>>
  /\ uploadType["A"] # "vocabulary" => vocabulary = <<>>
  /\ dialogues = <<>>
  /\ file = [u \in Uploaders |-> 0]
  /\ uploading = [u \in Uploaders |-> FALSE]
  /\ pc = [u \in Uploaders |-> "idle"]
  /\ run = [u \in Uploaders |-> NoRun]
  /\ toast = [u \in Uploaders |-> NoToast]
  /\ hist = [u \in Uploaders |-> NoHist]
  /\ outstanding = [u \in Uploaders |-> <<>>]
  /\ imports = 0
  /\ selects = 0
  /\ failures = 0
  /\ initialGames
  /\ initialTracking
  /\ initialQuizPage
  /\ initialWordBank
  /\ initialCards

\* the files of the protocol runs: for each kind a header-only file and files
\* with one and with two aggregates
ProtocolFiles ==
  { i \in 1..Len(Files) :
      Files[i].text \in { Header, QuizTexts[5], QuizTexts[6],
                          VocabularyTexts[2], DialogueTexts[2] } }

\* two signed-in uploaders, whose imports may interleave
Init ==
  /\ InitCommon
  /\ user["B"] # NoUser
  /\ menu = ProtocolFiles

\* one signed-in uploader, every input file but those of CommaTexts
InitParse ==
  /\ InitCommon
  /\ user["B"] = NoUser
  /\ menu = { i \in 1..Len(Files) :
                \A j \in 1..Len(CommaTexts) : Files[i].text # CommaTexts[j] }

\* one signed-in uploader, the file with a comma inside quotes and one
\* plain file of each kind
InitComma ==
  /\ InitCommon
  /\ user["B"] = NoUser
  /\ menu = { i \in 1..Len(Files) :
                Files[i].text \in { CommaTexts[1], VocabularyTexts[2],
                                    DialogueTexts[2] }
                  \/ ~Files[i].isCsv }

-----------------------------------------------------------------------------
(* Ghost history: consecutive clean imports of one file by one uploader *)

\* id: the row a select found or an update addressed, else 0;
\* ok: the response carried no error
Call(op, table, key, id, ok) ==
  [op |-> op, table |-> table, key |-> key, id |-> id, ok |-> ok]

allOk(calls) == \A i \in 1..Len(calls) : calls[i].ok

\* hist[u].n counts the imports of hist[u].file that uploader u has completed
\* in a row with every remote call answered without error and no write of
\* another uploader since the first of them began; pairs, size (prevPairs,
\* prevSize) are the store as the last (the one before the last) left it.
histStart(h, f, disturbed) ==
  IF h.file = f /\ ~disturbed THEN h ELSE [NoHist EXCEPT !.file = f]

histDone(h, r, pairs, size) ==
  IF r.dirty \/ ~allOk(r.calls) THEN NoHist
  ELSE [h EXCEPT !.n = @ + 1,
                 !.prevPairs = h.pairs, !.pairs = pairs,
                 !.prevSize = h.size, !.size = size]

\* run with uploader u at r and, when u wrote, the others marked dirty
runAfter(u, r, wrote) ==
  [v \in Uploaders |->
     IF v = u THEN r
     ELSE IF wrote /\ run[v].outcome # "none" THEN [run[v] EXCEPT !.dirty = TRUE]
     ELSE run[v]]

-----------------------------------------------------------------------------
(* handleFileSelect, clearFile, handleUpload *)

InvalidFileToast ==
  [title |-> "Invalid file type", message |-> "Please select a CSV file",
   created |-> 0, updated |-> 0]

handleFileSelect(u, f) ==
  /\ selects < MaxSelects
  /\ f \in menu
  /\ Files[f].isCsv => Files[f].kind = uploadType[u]
  /\ selects' = selects + 1
  /\ IF Files[f].isCsv
     THEN file' = [file EXCEPT ![u] = f] /\ UNCHANGED toast
     ELSE toast' = [toast EXCEPT ![u] = InvalidFileToast] /\ UNCHANGED file
  /\ UNCHANGED <<others, quizzes, vocabulary, dialogues, user, uploadType, uploading,
                 pc, run, hist, outstanding, menu, imports, failures>>

\* the X button, shown while a file is selected
clearFile(u) ==
  /\ file[u] # 0
  /\ selects < MaxSelects
  /\ selects' = selects + 1
  /\ file' = [file EXCEPT ![u] = 0]
  /\ UNCHANGED <<others, quizzes, vocabulary, dialogues, user, uploadType, uploading,
                 pc, run, toast, hist, outstanding, menu, imports, failures>>

\* the Upload button is enabled when a file is selected and no import runs;
\* handleUpload returns at once without a user, else starts reading the file
handleUpload(u) ==
  /\ file[u] # 0
  /\ ~uploading[u]
  /\ IF user[u] = NoUser
     THEN UNCHANGED vars
     ELSE /\ imports < MaxImports
          /\ imports' = imports + 1
          /\ uploading' = [uploading EXCEPT ![u] = TRUE]
          /\ pc' = [pc EXCEPT ![u] = "text"]
          /\ run' = [run EXCEPT ![u] = [NoRun EXCEPT !.csv = file[u],
                                                     !.outcome = "running"]]
          /\ hist' = [hist EXCEPT ![u] = histStart(@, file[u], run[u].dirty)]
          /\ UNCHANGED <<others, quizzes, vocabulary, dialogues, user, uploadType,
                         file, toast, outstanding, menu, selects, failures>>

-----------------------------------------------------------------------------
(* The ends of handleUpload *)

\* getSuccessMessage: only the quiz message reports the updated count
getSuccessMessage(kind, createdCount, updatedCount) ==
  [title |-> "CSV Upload Successful", message |-> kind,
   created |-> createdCount,
   updated |-> IF kind = "quiz" THEN updatedCount ELSE 0]

RemoteAwaits == {"select", "update", "insert", "vselect", "vinsert", "dinsert"}

\* the calls of uploader u still unanswered once the response that resumes
\* the import has been taken (file.text() is not a remote call)
answered(u) ==
  IF pc[u] \in RemoteAwaits /\ outstanding[u] # <<>>
  THEN Tail(outstanding[u]) ELSE outstanding[u]

\* parseCSVAndCreateContent returned: toast, clearFile(), setUploading(false).
\* q, v, d: the collections as the last call left them
succeed(u, r, wrote, q, v, d) ==
  /\ run' = runAfter(u, [r EXCEPT !.outcome = "returned"], wrote)
  /\ pc' = [pc EXCEPT ![u] = "idle"]
  /\ toast' = [toast EXCEPT ![u] =
                 getSuccessMessage(uploadType[u], r.createdCount, r.updatedCount)]
  /\ file' = [file EXCEPT ![u] = 0]
  /\ uploading' = [uploading EXCEPT ![u] = FALSE]
  /\ hist' = [hist EXCEPT ![u] =
                 histDone(@, r, quizPairs(q), Len(q) + Len(v) + Len(d))]
  /\ outstanding' = [outstanding EXCEPT ![u] = answered(u)]

\* (variant: the flag is not reset when the import fails)
throwWithoutFinally(u, r, message) ==
  /\ run' = [run EXCEPT ![u] = [r EXCEPT !.outcome = "thrown", !.error = message]]
  /\ pc' = [pc EXCEPT ![u] = "idle"]
  /\ toast' = [toast EXCEPT ![u] =
                 [title |-> "Upload Failed", message |-> message,
                  created |-> 0, updated |-> 0]]
  /\ hist' = [hist EXCEPT ![u] = NoHist]
  /\ outstanding' = [outstanding EXCEPT ![u] = answered(u)]
  /\ UNCHANGED <<file, uploading>>

\* parseCSVAndCreateContent threw: toast with the message, setUploading(false)
throw(u, r, message) ==
  /\ run' = [run EXCEPT ![u] = [r EXCEPT !.outcome = "thrown", !.error = message]]
  /\ pc' = [pc EXCEPT ![u] = "idle"]
  /\ toast' = [toast EXCEPT ![u] =
                 [title |-> "Upload Failed", message |-> message,
                  created |-> 0, updated |-> 0]]
  /\ uploading' = [uploading EXCEPT ![u] = FALSE]
  /\ hist' = [hist EXCEPT ![u] = NoHist]
  /\ outstanding' = [outstanding EXCEPT ![u] = answered(u)]
  /\ UNCHANGED file

\* (variant: the next call is issued without awaiting the one before it)
resumeNotAwaiting(u, r, at, wrote) ==
  /\ run' = runAfter(u, r, wrote)
  /\ pc' = [pc EXCEPT ![u] = at]
  /\ outstanding' = [outstanding EXCEPT ![u] = Append(@, at)]
  /\ UNCHANGED <<file, uploading, toast, hist>>

\* the import goes on: the response it awaited is taken and the next remote
\* call is issued and awaited
resume(u, r, at, wrote) ==
  /\ run' = runAfter(u, r, wrote)
  /\ pc' = [pc EXCEPT ![u] = at]
  /\ outstanding' = [outstanding EXCEPT ![u] = Append(answered(u), at)]
  /\ UNCHANGED <<file, uploading, toast, hist>>

\* a remote call may fail for a reason outside the model, a bounded number
\* of times
mayFail(ok) ==
  /\ ok \/ failures < MaxFailures
  /\ failures' = IF ok THEN failures ELSE failures + 1

runLines(u) == linesOf(Files[run[u].csv].text)

-----------------------------------------------------------------------------
(* parseCSVAndCreateContent up to its first remote call *)

\* header + at least one data row
MinLines == 2

\* file.text() resolved: split the text, refuse fewer than minLines lines,
\* build the groups from line index first on, and issue the first remote
\* call (or finish when there is none)
importFrom(u, minLines, first) ==
  /\ pc[u] = "text"
  /\ LET lines == runLines(u)
         r     == run[u]
     IN  IF Len(lines) < minLines THEN throw(u, r, EmptyInputError)
         ELSE IF uploadType[u] = "quiz"
         THEN LET acc == quizGroupsFrom(lines, first, EmptyGroups)
                  gs  == processedEntries(acc.groups)
              IN  IF acc.thrown THEN throw(u, r, PushTypeError)
                  ELSE IF gs = <<>> THEN succeed(u, r, FALSE, quizzes, vocabulary, dialogues)
                  ELSE resume(u, [r EXCEPT !.groups = gs, !.k = 1], "select", FALSE)
         ELSE IF uploadType[u] = "dialogue"
         THEN LET acc == dialogueGroupsFrom(lines, first, EmptyGroups)
                  gs  == processedEntries(acc.groups)
              IN  IF acc.thrown THEN throw(u, r, PushTypeError)
                  ELSE IF gs = <<>> THEN succeed(u, r, FALSE, quizzes, vocabulary, dialogues)
                  ELSE resume(u, [r EXCEPT !.groups = gs, !.k = 1], "dinsert", FALSE)
         ELSE LET i == nextVocabularyRow(lines, first)
              IN  IF i >= Len(lines) THEN succeed(u, r, FALSE, quizzes, vocabulary, dialogues)
                  ELSE resume(u, [r EXCEPT !.k = i], "vselect", FALSE)
  /\ UNCHANGED <<others, quizzes, vocabulary, dialogues, user, uploadType,
                 menu, imports, selects, failures>>

\* (variant: one line is enough and the first line is read as data)
parseHeaderAsData(u) == importFrom(u, MinLines - 1, FirstDataLine - 1)

parseCSVAndCreateContent(u) == importFrom(u, MinLines, FirstDataLine)

-----------------------------------------------------------------------------
(* parseQuizCSV, second loop: one lookup and one write per aggregate *)

\* (variant: a failed write ends the import with an error)
quizAdvanceOrAbort(u, r, wrote, q) ==
  IF ~wrote THEN throw(u, r, "write failed")
  ELSE IF r.k < Len(r.groups)
  THEN resume(u, [r EXCEPT !.k = @ + 1, !.existing = 0], "select", wrote)
  ELSE succeed(u, r, wrote, q, vocabulary, dialogues)

\* after the write of aggregate k: the next aggregate's lookup, or the return
quizAdvance(u, r, wrote, q) ==
  IF r.k < Len(r.groups)
  THEN resume(u, [r EXCEPT !.k = @ + 1, !.existing = 0], "select", wrote)
  ELSE succeed(u, r, wrote, q, vocabulary, dialogues)

\* select('id').eq('title', title).eq('created_by', user.id).maybeSingle()
\* resolved; the error is not read, and the update or the insert is issued
quizSelectReturns(u, ok) ==
  /\ pc[u] = "select"
  /\ mayFail(ok)
  /\ LET g   == run[u].groups[run[u].k]
         res == maybeSingle(quizMatches(quizzes, g.key, user[u]), ok)
         r   == [run[u] EXCEPT
                   !.existing = res.data,
                   !.calls = Append(@, Call("select", "quizzes", <<g.key>>,
                                            res.data, ~res.error))]
     IN  resume(u, r, IF res.data # 0 THEN "update" ELSE "insert", FALSE)
  /\ UNCHANGED <<others, quizzes, vocabulary, dialogues, user, uploadType,
                 menu, imports, selects>>

\* (variant: the updated counter does not depend on the response)
quizUpdateCountedAlways(u, ok) ==
  /\ pc[u] = "update"
  /\ mayFail(ok)
  /\ LET g  == run[u].groups[run[u].k]
         id == run[u].existing
         r  == [run[u] EXCEPT
                  !.updatedCount = @ + 1,
                  !.calls = Append(@, Call("update", "quizzes", <<g.key>>, id, ok))]
         q  == IF ok THEN [quizzes EXCEPT ![id] = updatedQuiz(@, g.key, g.items)]
               ELSE quizzes
     IN  /\ quizzes' = q
         /\ quizAdvance(u, r, ok, q)
  /\ UNCHANGED <<others, vocabulary, dialogues, user, uploadType, menu, imports, selects>>

\* update({questions, description}).eq('id', existingQuiz.id) resolved
quizUpdateReturns(u, ok) ==
  /\ pc[u] = "update"
  /\ mayFail(ok)
  /\ LET g  == run[u].groups[run[u].k]
         id == run[u].existing
         r  == [run[u] EXCEPT
                  !.updatedCount = IF ok THEN @ + 1 ELSE @,
                  !.calls = Append(@, Call("update", "quizzes", <<g.key>>, id, ok))]
         q  == IF ok THEN [quizzes EXCEPT ![id] = updatedQuiz(@, g.key, g.items)]
               ELSE quizzes
     IN  /\ quizzes' = q
         /\ quizAdvance(u, r, ok, q)
  /\ UNCHANGED <<others, vocabulary, dialogues, user, uploadType, menu, imports, selects>>

\* insert({title, description, quiz_type, difficulty_level, time_limit,
\* questions, created_by}) resolved
quizInsertReturns(u, ok) ==
  /\ pc[u] = "insert"
  /\ mayFail(ok)
  /\ LET g == run[u].groups[run[u].k]
         r == [run[u] EXCEPT
                 !.createdCount = IF ok THEN @ + 1 ELSE @,
                 !.calls = Append(@, Call("insert", "quizzes", <<g.key>>, 0, ok))]
         q == insertInto(quizzes, newQuiz(g.key, g.items, user[u]), ok)
     IN  /\ quizzes' = q
         /\ quizAdvance(u, r, ok, q)
  /\ UNCHANGED <<others, vocabulary, dialogues, user, uploadType, menu, imports, selects>>

-----------------------------------------------------------------------------
(* parseVocabularyCSV: one lookup per accepted row, an insert when absent *)

vocabularyAdvance(u, r, wrote, v) ==
  LET i == nextVocabularyRow(runLines(u), r.k + 1)
  IN  IF i >= Len(runLines(u)) THEN succeed(u, r, wrote, quizzes, v, dialogues)
      ELSE resume(u, [r EXCEPT !.k = i, !.existing = 0], "vselect", wrote)

vocabularySelectReturns(u, ok) ==
  /\ pc[u] = "vselect"
  /\ mayFail(ok)
  /\ LET values == valuesOf(runLines(u)[run[u].k + 1])
         res == maybeSingle(vocabularyMatches(vocabulary, At(values, 0),
                                              At(values, 1)), ok)
         r   == [run[u] EXCEPT
                   !.existing = res.data,
                   !.calls = Append(@, Call("select", "vocabulary",
                                            <<At(values, 0), At(values, 1)>>,
                                            res.data, ~res.error))]
     IN  IF res.data # 0 THEN vocabularyAdvance(u, r, FALSE, vocabulary)
         ELSE resume(u, r, "vinsert", FALSE)
  /\ UNCHANGED <<others, quizzes, vocabulary, dialogues, user, uploadType,
                 menu, imports, selects>>

\* the insert fails when the store refuses the row (difficulty outside 1..5)
vocabularyInsertReturns(u, ok) ==
  /\ pc[u] = "vinsert"
  /\ mayFail(ok)
  /\ LET values == valuesOf(runLines(u)[run[u].k + 1])
         row == vocabularyEntry(values, user[u])
         done == ok /\ levelAllowed(row.difficulty_level)
         r   == [run[u] EXCEPT
                   !.createdCount = IF done THEN @ + 1 ELSE @,
                   !.calls = Append(@, Call("insert", "vocabulary",
                                            <<At(values, 0), At(values, 1)>>, 0,
                                            done))]
         v   == insertInto(vocabulary, row, done)
     IN  /\ vocabulary' = v
         /\ vocabularyAdvance(u, r, done, v)
  /\ UNCHANGED <<others, quizzes, dialogues, user, uploadType, menu, imports, selects>>

-----------------------------------------------------------------------------
(* parseDialogueCSV, second loop: one insert per aggregate *)

dialogueInsertReturns(u, ok) ==
  /\ pc[u] = "dinsert"
  /\ mayFail(ok)
  /\ LET g == run[u].groups[run[u].k]
         r == [run[u] EXCEPT
                 !.createdCount = IF ok THEN @ + 1 ELSE @,
                 !.calls = Append(@, Call("insert", "dialogues", <<g.key>>, 0, ok))]
         d == insertInto(dialogues, newDialogue(g.key, g.items, user[u]), ok)
     IN  /\ dialogues' = d
         /\ IF r.k < Len(r.groups)
            THEN resume(u, [r EXCEPT !.k = @ + 1], "dinsert", ok)
            ELSE succeed(u, r, ok, quizzes, vocabulary, d)
  /\ UNCHANGED <<others, quizzes, vocabulary, user, uploadType, menu, imports, selects>>

-----------------------------------------------------------------------------

Next ==
  \/ \E u \in Uploaders, f \in 1..Len(Files) : handleFileSelect(u, f)
  \/ \E u \in Uploaders : clearFile(u)
  \/ \E u \in Uploaders : handleUpload(u)
  \/ \E u \in Uploaders : parseCSVAndCreateContent(u)
  \/ \E u \in Uploaders, ok \in BOOLEAN : quizSelectReturns(u, ok)
  \/ \E u \in Uploaders, ok \in BOOLEAN : quizUpdateReturns(u, ok)
  \/ \E u \in Uploaders, ok \in BOOLEAN : quizInsertReturns(u, ok)
  \/ \E u \in Uploaders, ok \in BOOLEAN : vocabularySelectReturns(u, ok)
  \/ \E u \in Uploaders, ok \in BOOLEAN : vocabularyInsertReturns(u, ok)
  \/ \E u \in Uploaders, ok \in BOOLEAN : dialogueInsertReturns(u, ok)

Spec == Init /\ [][Next]_vars

SpecParse == InitParse /\ [][Next]_vars

SpecComma == InitComma /\ [][Next]_vars

\* a response of the store, or the text of the file, arrives for uploader u
responseArrives(u) ==
  \/ parseCSVAndCreateContent(u)
  \/ \E ok \in BOOLEAN : quizSelectReturns(u, ok)
  \/ \E ok \in BOOLEAN : quizUpdateReturns(u, ok)
  \/ \E ok \in BOOLEAN : quizInsertReturns(u, ok)
  \/ \E ok \in BOOLEAN : vocabularySelectReturns(u, ok)
  \/ \E ok \in BOOLEAN : vocabularyInsertReturns(u, ok)
  \/ \E ok \in BOOLEAN : dialogueInsertReturns(u, ok)

\* Every promise an import awaits is settled in the end: weak fairness of
\* responseArrives(u), which is enabled exactly while the import is suspended
\* (pc[u] # "idle"), written with that enabling condition.
settled(u) == <>[](pc[u] # "idle") => []<><<responseArrives(u)>>_vars

SpecLive == Spec /\ settled("A") /\ settled("B")

-----------------------------------------------------------------------------
(* Properties *)

\* the text of the file an import was started on
runText(u) == Files[run[u].csv].text

started(u) == run[u].csv # 0

\* no line break stands between two characters that are not blank: trimmed,
\* the text is one line (possibly empty)
FewLines(text) ==
  ~\E i, j, k \in 1..Len(text) :
      /\ i < j /\ j < k
      /\ text[j] = "\n"
      /\ ~IsSpace(text[i])
      /\ ~IsSpace(text[k])

HeaderOnly(text) == FewLines(text) /\ \E i \in 1..Len(text) : ~IsSpace(text[i])

\* C1: an import of a text that, trimmed, has fewer than two lines never gets
\* past reading the file and ends thrown, with the message that the CSV must
\* have a header row and one data row; for every upload type.
C1_TooFewLinesThrows ==
  \A u \in Uploaders :
    (started(u) /\ FewLines(runText(u))) =>
      /\ pc[u] \in {"text", "idle"}
      /\ pc[u] = "idle" =>
           /\ run[u].outcome = "thrown"
           /\ run[u].error = EmptyInputError
           /\ ~uploading[u]

\* a header followed by blank lines only was imported and refused
C1_Witness ==
  \E u \in Uploaders :
    /\ started(u)
    /\ runText(u) = Text(<<Header, <<" ">>, <<>>>>)
    /\ run[u].outcome = "thrown"
    /\ run[u].error = EmptyInputError

\* C2: an import of a header-only text issues no remote call: its call log
\* stays empty and it never waits for a select, insert or update.
C2_HeaderOnlyNoRemoteCall ==
  \A u \in Uploaders :
    (started(u) /\ HeaderOnly(runText(u))) =>
      /\ run[u].calls = <<>>
      /\ pc[u] \notin RemoteAwaits

\* a one-line file whose line has the ten cells of a quiz row was refused
\* with no call made
C2_Witness ==
  \E u \in Uploaders :
    /\ started(u)
    /\ runText(u) = ExampleRow
    /\ run[u].outcome = "thrown"
    /\ run[u].calls = <<>>

\* the data rows (1-based positions) of a quiz text that carry both question
\* texts in at least ten cells, and the title each is filed under
quizRowAccepted(values) ==
  /\ Len(values) >= MinQuizCells
  /\ values[4] # <<>>
  /\ values[5] # <<>>

acceptedQuizRows(lines) ==
  { i \in 2..Len(lines) : quizRowAccepted(valuesOf(lines[i])) }

titleFiledUnder(values) ==
  IF values[1] = <<>> THEN DefaultQuizTitle ELSE values[1]

aggregateTitles(lines) ==
  { titleFiledUnder(valuesOf(lines[i])) : i \in acceptedQuizRows(lines) }

finished(u) == pc[u] = "idle" /\ run[u].outcome = "returned"

\* C3: when a quiz import has just been completed for the second time in a
\* row on the same file, all remote calls of both runs having succeeded and
\* no other uploader having written meanwhile, the second run created
\* nothing, updated as many quizzes as the file has aggregates, and left the
\* (title, owner) pairs of the store as the first run left them.
C3_SecondRunUpdatesOnly ==
  \A u \in Uploaders :
    (uploadType[u] = "quiz" /\ finished(u) /\ hist[u].n >= 2) =>
      /\ run[u].createdCount = 0
      /\ run[u].updatedCount = Cardinality(aggregateTitles(runLines(u)))
      /\ hist[u].pairs = hist[u].prevPairs

\* a file with two aggregates was imported twice in a row
C3_Witness ==
  \E u \in Uploaders :
    /\ uploadType[u] = "quiz"
    /\ finished(u)
    /\ hist[u].n >= 2
    /\ run[u].updatedCount = 2

\* the grouping loop of the import is over and did not throw
grouped(u) == started(u) /\ (pc[u] \in RemoteAwaits \/ finished(u))

aggregateSize(groups, t) ==
  IF hasKey(groups, t) THEN Len(groups[keyIndex(groups, t)].items) ELSE 0

dataRows(lines) == 2..Len(lines)

\* the data rows filed under t whose two question cells are not empty
rowsWithQuestions(lines, t) ==
  { i \in dataRows(lines) :
      LET values == valuesOf(lines[i])
      IN  /\ titleFiledUnder(values) = t
          /\ Truthy(At(values, 3))
          /\ Truthy(At(values, 4)) }

\* C4 as stated: for every title of a quiz file, the aggregate of that title
\* has as many questions as the file has data rows of that title with both
\* question texts.
C4_Original ==
  \A u \in Uploaders :
    (uploadType[u] = "quiz" /\ grouped(u)) =>
      \A i \in dataRows(runLines(u)) :
        LET t == titleFiledUnder(valuesOf(runLines(u)[i]))
        IN  aggregateSize(run[u].groups, t)
              = Cardinality(rowsWithQuestions(runLines(u), t))

\* C4, amended: for every title of a quiz file, the aggregate of that title
\* has as many questions as the file has data rows of that title with at
\* least ten cells and both question texts (an empty title cell is filed
\* under "Imported Quiz").
C4_QuestionCount ==
  \A u \in Uploaders :
    (uploadType[u] = "quiz" /\ grouped(u)) =>
      \A i \in dataRows(runLines(u)) :
        LET t == titleFiledUnder(valuesOf(runLines(u)[i]))
        IN  aggregateSize(run[u].groups, t)
              = Cardinality({ j \in acceptedQuizRows(runLines(u)) :
                                titleFiledUnder(valuesOf(runLines(u)[j])) = t })

\* the file with three rows titled "Title", one of them without a question
\* text, was grouped into an aggregate of two questions
C4_Witness ==
  \E u \in Uploaders :
    /\ uploadType[u] = "quiz"
    /\ grouped(u)
    /\ Cardinality({ i \in dataRows(runLines(u)) :
                       valuesOf(runLines(u)[i])[1] = <<"Title">> }) = 3
    /\ aggregateSize(run[u].groups, <<"Title">>) = 2

\* a required cell of the row is empty or missing
badRow(kind, values) ==
  CASE kind = "quiz" -> ~Truthy(At(values, 3)) \/ ~Truthy(At(values, 4))
    [] kind = "vocabulary" -> ~Truthy(At(values, 0)) \/ ~Truthy(At(values, 1))
    [] kind = "dialogue" ->
         ~Truthy(At(values, 1)) \/ ~Truthy(At(values, 2)) \/ ~Truthy(At(values, 3))

\* the lines with the bad data rows taken out
withoutBad(kind, lines) ==
  <<lines[1]>> \o SelectSeq(Tail(lines), LAMBDA l : ~badRow(kind, valuesOf(l)))

hasBadRow(kind, lines) ==
  \E i \in dataRows(lines) : badRow(kind, valuesOf(lines[i]))

processedRows(lines) ==
  { i \in dataRows(lines) : ~vocabularyRowSkipped(valuesOf(lines[i])) }

selectCalls(calls) == { i \in 1..Len(calls) : calls[i].op = "select" }

\* C5: an import treats its lines as it would treat them with the rows that
\* lack a required field taken out: the groups built (quiz, dialogue), whether
\* grouping throws, and the rows looked up (vocabulary) are the same, and a
\* bad row never makes the import throw.
C5_BadRowsIgnored ==
  \A u \in Uploaders :
    (started(u) /\ pc[u] # "text" /\ Len(runLines(u)) >= MinLines) =>
      LET kind == uploadType[u]
          good == withoutBad(kind, runLines(u))
      IN  IF kind = "vocabulary"
          THEN /\ run[u].outcome # "thrown"
               /\ \A c \in selectCalls(run[u].calls) :
                    \E i \in processedRows(good) :
                      run[u].calls[c].key = <<valuesOf(good[i])[1], valuesOf(good[i])[2]>>
               /\ finished(u) =>
                    Cardinality(selectCalls(run[u].calls))
                      = Cardinality(processedRows(good))
          ELSE LET expected == IF kind = "quiz" THEN quizGroupsOf(good)
                               ELSE dialogueGroupsOf(good)
               IN  IF expected.thrown
                   THEN run[u].outcome = "thrown" /\ run[u].error = PushTypeError
                   ELSE /\ run[u].outcome # "thrown"
                        /\ run[u].groups = entries(expected.groups)

\* a quiz import of a file with a bad row returned, having written both
\* aggregates of the good rows
C5_Witness ==
  \E u \in Uploaders :
    /\ finished(u)
    /\ uploadType[u] = "quiz"
    /\ hasBadRow("quiz", runLines(u))
    /\ Len(run[u].groups) = 2
    /\ run[u].createdCount + run[u].updatedCount = 2

\* one aggregate titled "Title" with one question, answer "A", options A-D
isExampleAggregate(groups) ==
  /\ Len(groups) = 1
  /\ groups[1].key = <<"Title">>
  /\ Len(groups[1].items) = 1
  /\ groups[1].items[1].correct_answer = <<"A">>
  /\ groups[1].items[1].options = << <<"A">>, <<"B">>, <<"C">>, <<"D">> >>

\* C6 as stated: the import of the one-line text
\* Title,Type,Desc,Q1-guj,Q1-eng,A,B,C,D,A ends with one aggregate "Title"
\* of one question with answer "A" and options A, B, C, D.
C6_Original ==
  \A u \in Uploaders :
    (uploadType[u] = "quiz" /\ started(u) /\ runText(u) = ExampleRow
       /\ pc[u] # "text") =>
      /\ run[u].outcome # "thrown"
      /\ isExampleAggregate(run[u].groups)

\* C6, amended: the import of a header line followed by that row builds one
\* aggregate "Title" of one question with answer "A" and options A, B, C, D.
C6_ExampleAfterHeader ==
  \A u \in Uploaders :
    (uploadType[u] = "quiz" /\ started(u)
       /\ runText(u) = Text(<<Header, ExampleRow>>) /\ pc[u] # "text") =>
      /\ run[u].outcome # "thrown"
      /\ isExampleAggregate(run[u].groups)

\* the header and the example row were imported and the quiz was inserted
C6_Witness ==
  \E u \in Uploaders :
    /\ finished(u)
    /\ runText(u) = Text(<<Header, ExampleRow>>)
    /\ run[u].createdCount = 1
    /\ \E i \in 1..Len(quizzes) :
         /\ quizzes[i].title = <<"Title">>
         /\ quizzes[i].questions = run[u].groups[1].items


-----------------------------------------------------------------------------
(* The quiz protocol: lookup, then one write *)

isWrite(c) == c.op \in {"update", "insert"}

okWrites(calls, op) ==
  Cardinality({ i \in 1..Len(calls) : calls[i].op = op /\ calls[i].ok })

failedWrites(calls) == { i \in 1..Len(calls) : isWrite(calls[i]) /\ ~calls[i].ok }

\* the calls of a quiz import: for the j-th aggregate a select at 2j-1 and at
\* 2j an update of the row the select found, or an insert when it found none
quizCallsInOrder(u) ==
  LET c  == run[u].calls
      gs == run[u].groups
  IN  /\ Len(c) <= 2 * Len(gs)
      /\ \A i \in 1..Len(c) :
           /\ c[i].table = "quizzes"
           /\ c[i].key = <<gs[(i + 1) \div 2].key>>
           /\ i % 2 = 1 => c[i].op = "select"
           /\ i % 2 = 0 =>
                /\ c[i].op = IF c[i - 1].id # 0 THEN "update" ELSE "insert"
                /\ c[i].id = c[i - 1].id
      /\ pc[u] = "idle" /\ run[u].outcome = "returned" => Len(c) = 2 * Len(gs)

quizProtocolState(u) ==
  /\ quizCallsInOrder(u)
  /\ run[u].updatedCount = okWrites(run[u].calls, "update")
  /\ run[u].createdCount = okWrites(run[u].calls, "insert")
  /\ pc[u] = "update" =>
       /\ run[u].existing \in 1..Len(quizzes)
       /\ quizzes[run[u].existing].title = run[u].groups[run[u].k].key
       /\ quizzes[run[u].existing].created_by = user[u]
  /\ pc[u] = "insert" => run[u].existing = 0

sameCounters(u) ==
  /\ run'[u].createdCount = run[u].createdCount
  /\ run'[u].updatedCount = run[u].updatedCount

sameMetadata(a, b) ==
  /\ a.title = b.title
  /\ a.quiz_type = b.quiz_type
  /\ a.difficulty_level = b.difficulty_level
  /\ a.time_limit = b.time_limit
  /\ a.created_by = b.created_by

\* what the step of uploader u out of a lookup or a write does
quizProtocolStep(u) ==
  LET g  == run[u].groups[run[u].k]
      id == run[u].existing
      n  == Len(quizzes)
  IN  /\ (pc[u] = "select" /\ pc'[u] # "select") =>
            /\ quizzes' = quizzes
            /\ sameCounters(u)
            /\ pc'[u] = IF run'[u].existing # 0 THEN "update" ELSE "insert"
      /\ (pc[u] = "update" /\ pc'[u] # "update") =>
            /\ Len(quizzes') = n
            /\ \A i \in 1..n : i # id => quizzes'[i] = quizzes[i]
            /\ sameMetadata(quizzes'[id], quizzes[id])
            /\ \/ /\ quizzes'[id].questions = g.items
                  /\ quizzes'[id].description.count = Len(g.items)
                  /\ run'[u].updatedCount = run[u].updatedCount + 1
                  /\ run'[u].createdCount = run[u].createdCount
               \/ /\ quizzes' = quizzes
                  /\ sameCounters(u)
      /\ (pc[u] = "insert" /\ pc'[u] # "insert") =>
            /\ \A i \in 1..n : quizzes'[i] = quizzes[i]
            /\ \/ /\ Len(quizzes') = n + 1
                  /\ quizzes'[n + 1].title = g.key
                  /\ quizzes'[n + 1].questions = g.items
                  /\ quizzes'[n + 1].difficulty_level = 2
                  /\ quizzes'[n + 1].time_limit = 15
                  /\ quizzes'[n + 1].created_by = user[u]
                  /\ run'[u].createdCount = run[u].createdCount + 1
                  /\ run'[u].updatedCount = run[u].updatedCount
               \/ /\ quizzes' = quizzes
                  /\ sameCounters(u)

\* C7: a quiz import issues, for each aggregate in turn, one lookup by
\* (title, owner) and then one write: an update of the row found, which
\* changes only its questions and description and on success adds one to the
\* updated counter, or, when none was found, an insert of a row with
\* difficulty 2 and time limit 15 owned by the user, which on success adds one
\* to the created counter; never both for one aggregate.
C7_LookupThenOneWrite ==
  /\ [](\A u \in Uploaders :
          (uploadType[u] = "quiz" /\ started(u)) => quizProtocolState(u))
  /\ [][\A u \in Uploaders :
          (uploadType[u] = "quiz" /\ started(u)) => quizProtocolStep(u)]_vars

\* an import updated the quiz it found, whose metadata stayed, and inserted
\* the one it did not find
C7_Witness ==
  \E u \in Uploaders :
    /\ finished(u)
    /\ uploadType[u] = "quiz"
    /\ run[u].updatedCount = 1
    /\ run[u].createdCount = 1
    /\ Len(quizzes) = 2
    /\ quizzes[1].difficulty_level = 4
    /\ quizzes[1].questions = run[u].groups[1].items
    /\ quizzes[2].difficulty_level = 2

\* C8: after a failed insert or update the import is not ended by an error:
\* when it ends it has returned with a lookup and a write (for dialogues a
\* write) issued for every aggregate, and the counters add up to the writes
\* that succeeded.
C8_FailedWriteDoesNotAbort ==
  \A u \in Uploaders :
    (uploadType[u] \in {"quiz", "dialogue"} /\ started(u)
       /\ failedWrites(run[u].calls) # {}) =>
      /\ run[u].outcome # "thrown"
      /\ pc[u] = "idle" =>
           /\ run[u].outcome = "returned"
           /\ toast[u].title = "CSV Upload Successful"
           /\ Len(run[u].calls) =
                IF uploadType[u] = "quiz" THEN 2 * Len(run[u].groups)
                ELSE Len(run[u].groups)
      /\ run[u].createdCount + run[u].updatedCount =
           Cardinality({ i \in 1..Len(run[u].calls) :
                           isWrite(run[u].calls[i]) /\ run[u].calls[i].ok })
      /\ run[u].createdCount + run[u].updatedCount
           <= Len(run[u].groups) - Cardinality(failedWrites(run[u].calls))

\* the write of the first aggregate failed, the second was looked up and
\* written, and the import returned with a count of one
C8_Witness ==
  \E u \in Uploaders :
    /\ finished(u)
    /\ uploadType[u] = "quiz"
    /\ Len(run[u].calls) = 4
    /\ ~run[u].calls[2].ok
    /\ run[u].calls[4].ok
    /\ run[u].createdCount + run[u].updatedCount = 1

\* C9 as stated: from a store with at most one quiz per (title, owner), quiz
\* imports, interleaved or not, keep at most one quiz per (title, owner).
C9_UniquePerTitleOwner ==
  \A i, j \in 1..Len(quizzes) :
    (quizzes[i].title = quizzes[j].title
       /\ quizzes[i].created_by = quizzes[j].created_by) => i = j

\* the record an earlier successful call of this import wrote is in the store
written(u, c) ==
  IF c.table = "quizzes"
  THEN \E j \in 1..Len(run[u].groups) :
         /\ <<run[u].groups[j].key>> = c.key
         /\ \E i \in 1..Len(quizzes) :
              /\ c.op = "update" => i = c.id
              /\ quizzes[i].title = run[u].groups[j].key
              /\ quizzes[i].created_by = user[u]
              /\ quizzes[i].questions = run[u].groups[j].items
  ELSE \E l \in 2..Len(runLines(u)) :
         LET values == valuesOf(runLines(u)[l])
         IN  /\ <<At(values, 0), At(values, 1)>> = c.key
             /\ \E i \in 1..Len(vocabulary) :
                  /\ vocabulary[i].english_word = At(values, 0)
                  /\ vocabulary[i].gujarati_word = At(values, 1)
                  /\ vocabulary[i].gujarati_transliteration
                       = OrElse(At(values, 2), <<>>)
                  /\ vocabulary[i].created_by = user[u]

\* C10: while no other uploader has written, once a write of a quiz or
\* vocabulary import has failed, every record that a successful write of the
\* same import inserted or updated is in the store with what the import wrote,
\* also when the import has ended.
C10_NoRollback ==
  \A u \in Uploaders :
    (uploadType[u] \in {"quiz", "vocabulary"} /\ started(u) /\ ~run[u].dirty
       /\ failedWrites(run[u].calls) # {}) =>
      \A i \in 1..Len(run[u].calls) :
        (isWrite(run[u].calls[i]) /\ run[u].calls[i].ok) =>
          written(u, run[u].calls[i])

\* an import ended whose first write succeeded and whose later write failed
C10_Witness ==
  \E u \in Uploaders :
    /\ finished(u)
    /\ uploadType[u] \in {"quiz", "vocabulary"}
    /\ ~run[u].dirty
    /\ \E i, j \in 1..Len(run[u].calls) :
         /\ i < j
         /\ isWrite(run[u].calls[i]) /\ run[u].calls[i].ok
         /\ isWrite(run[u].calls[j]) /\ ~run[u].calls[j].ok
         /\ written(u, run[u].calls[i])


-----------------------------------------------------------------------------
(* One remote call at a time *)

\* each vocabulary insert follows the lookup of the same pair, which found none
vocabularyCallsInOrder(u) ==
  LET c == run[u].calls
  IN  \A i \in 1..Len(c) :
        /\ c[i].table = "vocabulary"
        /\ c[i].op \in {"select", "insert"}
        /\ c[i].op = "insert" =>
             /\ i > 1
             /\ c[i - 1].op = "select"
             /\ c[i - 1].key = c[i].key
             /\ c[i - 1].id = 0

\* C11: an import has at most one remote call outstanding, the one it is
\* suspended at; in a quiz import the answered calls are lookup, write,
\* lookup, write, ... in aggregate order, and a write is outstanding only
\* after its lookup was answered, a lookup only after the write before it.
C11_OneCallAtATime ==
  \A u \in Uploaders :
    /\ Len(outstanding[u]) <= 1
    /\ pc[u] \in RemoteAwaits => outstanding[u] = <<pc[u]>>
    /\ pc[u] \notin RemoteAwaits => outstanding[u] = <<>>
    /\ (started(u) /\ uploadType[u] = "quiz") =>
         /\ quizCallsInOrder(u)
         /\ pc[u] \in {"update", "insert"} => Len(run[u].calls) = 2 * run[u].k - 1
         /\ pc[u] = "select" => Len(run[u].calls) = 2 * (run[u].k - 1)
    /\ (started(u) /\ uploadType[u] = "vocabulary") =>
         /\ vocabularyCallsInOrder(u)
         /\ pc[u] = "vinsert" =>
              /\ run[u].calls # <<>>
              /\ run[u].calls[Len(run[u].calls)].op = "select"

\* the lookup of the second aggregate is outstanding, after the lookup and
\* the write of the first were answered
C11_Witness ==
  \E u \in Uploaders :
    /\ pc[u] = "select"
    /\ run[u].k = 2
    /\ Len(run[u].calls) = 2
    /\ outstanding[u] = <<"select">>


-----------------------------------------------------------------------------
(* Grouping order *)

rowAccepted(kind, values) ==
  IF kind = "quiz" THEN ~quizRowSkipped(values) ELSE ~dialogueRowSkipped(values)

rowTitle(kind, values) ==
  IF kind = "quiz" THEN quizRowTitle(values) ELSE dialogueRowTitle(values)

rowItem(kind, values) ==
  IF kind = "quiz" THEN quizQuestion(values) ELSE dialogueTurn(values)

\* the values of the accepted data rows, in row order
acceptedValues(kind, lines) ==
  LET IsAccepted(line) == rowAccepted(kind, valuesOf(line))
      accepted == SelectSeq(Tail(lines), IsAccepted)
  IN  [i \in 1..Len(accepted) |-> valuesOf(accepted[i])]

\* the distinct titles of rows, in the order in which each is first seen
RECURSIVE firstSeen(_, _, _)
firstSeen(kind, rows, seen) ==
  IF rows = <<>> THEN <<>>
  ELSE LET t == rowTitle(kind, Head(rows))
       IN  IF t \in seen THEN firstSeen(kind, Tail(rows), seen)
           ELSE <<t>> \o firstSeen(kind, Tail(rows), seen \cup {t})

\* the records of the rows titled t, in row order
itemsOf(kind, rows, t) ==
  LET HasTitle(values) == rowTitle(kind, values) = t
      mine == SelectSeq(rows, HasTitle)
  IN  [i \in 1..Len(mine) |-> rowItem(kind, mine[i])]

\* C12 as stated: once the rows of a quiz or dialogue CSV have been grouped,
\* the aggregates are the distinct titles of the accepted rows in first-seen
\* order (also for titles that look like integers), each with its records in
\* row order.
C12_FirstSeenOrder ==
  \A u \in Uploaders :
    (uploadType[u] \in {"quiz", "dialogue"} /\ started(u) /\ pc[u] # "text"
       /\ Len(runLines(u)) >= MinLines) =>
      LET rows   == acceptedValues(uploadType[u], runLines(u))
          titles == firstSeen(uploadType[u], rows, {})
      IN  /\ run[u].outcome # "thrown"
          /\ Len(run[u].groups) = Len(titles)
          /\ \A j \in 1..Len(titles) :
               /\ run[u].groups[j].key = titles[j]
               /\ run[u].groups[j].items = itemsOf(uploadType[u], rows, titles[j])

\* C12 for titles that are neither integer-like nor names of inherited
\* object properties
plainTitle(t) == ~IsArrayIndex(t) /\ t \notin ObjectPrototypeKeys

C12_PlainTitlesFirstSeenOrder ==
  \A u \in Uploaders :
    (uploadType[u] \in {"quiz", "dialogue"} /\ started(u) /\ pc[u] # "text"
       /\ Len(runLines(u)) >= MinLines) =>
      LET rows   == acceptedValues(uploadType[u], runLines(u))
          titles == firstSeen(uploadType[u], rows, {})
      IN  (\A j \in 1..Len(titles) : plainTitle(titles[j])) =>
            /\ run[u].outcome # "thrown"
            /\ Len(run[u].groups) = Len(titles)
            /\ \A j \in 1..Len(titles) :
                 /\ run[u].groups[j].key = titles[j]
                 /\ run[u].groups[j].items
                      = itemsOf(uploadType[u], rows, titles[j])


-----------------------------------------------------------------------------
(* Repeated imports of vocabulary and dialogues *)

\* C13 as stated: when a vocabulary or dialogue import has just been
\* completed for the second time in a row on the same file, all remote calls
\* of both runs having succeeded and no other uploader having written, the
\* second run created nothing and the store has as many records as after
\* the first.
C13_SecondRunCreatesNothing ==
  \A u \in Uploaders :
    (uploadType[u] \in {"vocabulary", "dialogue"} /\ finished(u)
       /\ hist[u].n >= 2) =>
      /\ run[u].createdCount = 0
      /\ hist[u].size = hist[u].prevSize

\* the vocabulary half of C13
C13_VocabularySecondRunCreatesNothing ==
  \A u \in Uploaders :
    (uploadType[u] = "vocabulary" /\ finished(u) /\ hist[u].n >= 2) =>
      /\ run[u].createdCount = 0
      /\ hist[u].size = hist[u].prevSize


\* C14 as stated: from a store without duplicate pairs, vocabulary imports
\* keep at most one entry per (English word, Gujarati word) pair.
C14_UniquePair ==
  \A i, j \in 1..Len(vocabulary) :
    (vocabulary[i].english_word = vocabulary[j].english_word
       /\ vocabulary[i].gujarati_word = vocabulary[j].gujarati_word) => i = j

\* the part of C14 about entries already stored: no step changes or removes one
C14_ExistingNeverModified ==
  [][/\ Len(vocabulary') >= Len(vocabulary)
     /\ \A i \in 1..Len(vocabulary) : vocabulary'[i] = vocabulary[i]]_vars


\* C15 as stated: the entry of every vocabulary insert that is issued has a
\* difficulty in 1..5, whatever the difficulty cell holds.
C15_DifficultyInRange ==
  \A u \in Uploaders :
    pc[u] = "vinsert" =>
      vocabularyEntry(valuesOf(runLines(u)[run[u].k + 1]), user[u])
        .difficulty_level \in 1..5


-----------------------------------------------------------------------------
(* Empty aggregates, the tally, short rows *)

minCells(kind) ==
  CASE kind = "quiz" -> 10
    [] kind = "vocabulary" -> 3
    [] kind = "dialogue" -> 5

\* the row has too few cells or lacks a required field
rowRejected(kind, values) == Len(values) < minCells(kind) \/ badRow(kind, values)

allRowsRejected(kind, lines) ==
  \A i \in dataRows(lines) : rowRejected(kind, valuesOf(lines[i]))

\* a record that a step adds or changes is not empty
writesNonEmpty ==
  /\ \A i \in 1..Len(quizzes') :
       (i > Len(quizzes) \/ quizzes'[i] # quizzes[i]) =>
         quizzes'[i].questions # <<>>
  /\ \A i \in 1..Len(dialogues') :
       (i > Len(dialogues) \/ dialogues'[i] # dialogues[i]) =>
         dialogues'[i].dialogue_data # <<>>

\* C16: every aggregate a quiz or dialogue import works on has at least one
\* record, every record a step inserts or updates carries at least one
\* question (turn), and an import of a CSV with data rows that are all
\* rejected ends without a remote call, returning created = 0, updated = 0.
C16_NoEmptyAggregate ==
  /\ [](\A u \in Uploaders :
          (uploadType[u] \in {"quiz", "dialogue"} /\ started(u)) =>
            /\ \A j \in 1..Len(run[u].groups) : run[u].groups[j].items # <<>>
            /\ (pc[u] # "text" /\ Len(runLines(u)) >= MinLines
                  /\ allRowsRejected(uploadType[u], runLines(u))) =>
                 /\ finished(u)
                 /\ run[u].calls = <<>>
                 /\ run[u].createdCount = 0 /\ run[u].updatedCount = 0
                 /\ toast[u].title = "CSV Upload Successful" =>
                      toast[u].created = 0 /\ toast[u].updated = 0)
  /\ [][writesNonEmpty]_vars

\* an import of a CSV whose two data rows are both rejected has returned
C16_Witness ==
  \E u \in Uploaders :
    /\ finished(u)
    /\ uploadType[u] \in {"quiz", "dialogue"}
    /\ Len(runLines(u)) = 3
    /\ allRowsRejected(uploadType[u], runLines(u))
    /\ run[u].calls = <<>>
    /\ toast[u].title = "CSV Upload Successful"
    /\ toast[u].created = 0


\* the distinct titles among the accepted rows of a quiz or dialogue CSV
distinctAggregates(kind, lines) ==
  LET rows == acceptedValues(kind, lines)
  IN  Cardinality({ rowTitle(kind, rows[i]) : i \in 1..Len(rows) })

writeCalls(calls) == { i \in 1..Len(calls) : isWrite(calls[i]) }

\* C17: in a quiz or dialogue import createdCount is the number of inserts
\* answered without error and updatedCount the number of such updates; their
\* sum is at most the number of distinct aggregates of the CSV, and when the
\* import has returned it equals that number exactly when no write failed;
\* the success message shows these counts.
C17_TallyCountsSuccessfulWrites ==
  \A u \in Uploaders :
    (uploadType[u] \in {"quiz", "dialogue"} /\ started(u)) =>
      LET c == run[u].calls
          n == distinctAggregates(uploadType[u], runLines(u))
      IN  /\ run[u].createdCount = okWrites(c, "insert")
          /\ run[u].updatedCount = okWrites(c, "update")
          /\ (pc[u] # "text" /\ Len(runLines(u)) >= MinLines) =>
               run[u].createdCount + run[u].updatedCount <= n
          /\ finished(u) =>
               /\ Cardinality(writeCalls(c)) = n
               /\ (run[u].createdCount + run[u].updatedCount = n)
                    <=> failedWrites(c) = {}
               /\ toast[u].title = "CSV Upload Successful" =>
                    /\ toast[u].created = run[u].createdCount
                    /\ toast[u].updated = run[u].updatedCount

\* an import of two aggregates returned with one update that failed and one
\* insert that succeeded
C17_Witness ==
  \E u \in Uploaders :
    /\ finished(u)
    /\ uploadType[u] = "quiz"
    /\ Len(run[u].calls) = 4
    /\ run[u].calls[2].op = "update" /\ ~run[u].calls[2].ok
    /\ run[u].calls[4].op = "insert" /\ run[u].calls[4].ok
    /\ run[u].createdCount = 1 /\ run[u].updatedCount = 0
    /\ toast[u].created = 1 /\ toast[u].updated = 0


\* the lines with the data rows of too few cells taken out
withoutShort(kind, lines) ==
  <<lines[1]>> \o SelectSeq(Tail(lines),
                            LAMBDA l : Len(valuesOf(l)) >= minCells(kind))

validRows(kind, lines) ==
  { i \in dataRows(lines) : ~rowRejected(kind, valuesOf(lines[i])) }

\* short rows leave no trace and every valid row is taken up
shortDroppedValidKept(u) ==
  LET kind  == uploadType[u]
      lines == runLines(u)
      long  == withoutShort(kind, lines)
  IN  IF kind = "vocabulary"
      THEN /\ \A c \in selectCalls(run[u].calls) :
                \E i \in validRows(kind, lines) :
                  run[u].calls[c].key
                    = <<At(valuesOf(lines[i]), 0), At(valuesOf(lines[i]), 1)>>
           /\ finished(u) =>
                \A i \in validRows(kind, lines) :
                  \E c \in selectCalls(run[u].calls) :
                    run[u].calls[c].key
                      = <<At(valuesOf(lines[i]), 0), At(valuesOf(lines[i]), 1)>>
      ELSE /\ grouped(u) =>
                /\ run[u].groups
                     = processedEntries((IF kind = "quiz" THEN quizGroupsOf(long)
                                         ELSE dialogueGroupsOf(long)).groups)
                /\ \A i \in validRows(kind, lines) :
                     \E j \in 1..Len(run[u].groups) :
                       /\ run[u].groups[j].key = rowTitle(kind, valuesOf(lines[i]))
                       /\ \E k \in 1..Len(run[u].groups[j].items) :
                            run[u].groups[j].items[k]
                              = rowItem(kind, valuesOf(lines[i]))

\* C18 as stated: an import raises no error over a data row, a row with fewer
\* cells than its kind requires contributes to no aggregate and no remote
\* call, and every row with enough cells and its required fields is accepted.
C18_ShortDroppedValidAccepted ==
  \A u \in Uploaders :
    (started(u) /\ pc[u] # "text" /\ Len(runLines(u)) >= MinLines) =>
      /\ run[u].outcome # "thrown"
      /\ shortDroppedValidKept(u)

\* C18 for imports that were not ended by an error
C18_UnlessThrown ==
  \A u \in Uploaders :
    (started(u) /\ pc[u] # "text" /\ Len(runLines(u)) >= MinLines
       /\ run[u].outcome # "thrown") => shortDroppedValidKept(u)


-----------------------------------------------------------------------------
(* The columns of a quiz row *)

\* the non-empty cells among positions from..to (0-based), in order
RECURSIVE cellsGiven(_, _, _)
cellsGiven(values, from, to) ==
  IF from > to THEN <<>>
  ELSE (IF values[from + 1] = <<>> THEN <<>> ELSE <<values[from + 1]>>)
       \o cellsGiven(values, from + 1, to)

\* the aggregate titled t holds a question made of the columns of the row
questionOfRowUnder(groups, t, values) ==
  \E j \in 1..Len(groups) :
    /\ groups[j].key = t
    /\ \E k \in 1..Len(groups[j].items) :
         LET q == groups[j].items[k]
         IN  /\ q.question_gujarati = values[4]
             /\ q.question = values[4] \o <<" ", "/", " ">> \o values[5]
             /\ values[4] # <<>> /\ values[5] # <<>>
             /\ q.correct_answer = values[10]
             /\ q.options = cellsGiven(values, 5, 8)
             /\ Len(q.options) <= 4

\* C19 as stated: once a quiz CSV has been grouped, every accepted row has
\* its question in the aggregate titled by its cell 0, with the texts of
\* cells 3 and 4, the answer of cell 9 and the non-empty cells 5 to 8 as
\* options.
C19_Original ==
  \A u \in Uploaders :
    (uploadType[u] = "quiz" /\ grouped(u)) =>
      \A i \in validRows("quiz", runLines(u)) :
        LET values == valuesOf(runLines(u)[i])
        IN  questionOfRowUnder(run[u].groups, values[1], values)

\* C19, amended: once a quiz CSV has been grouped, every accepted row has
\* its question in the aggregate titled by its cell 0, or by "Imported Quiz"
\* when that cell is empty, with the texts of cells 3 and 4 (both non-empty),
\* the answer of cell 9 and the non-empty cells 5 to 8, in order, as its at
\* most four options.
C19_ColumnsOfAcceptedRow ==
  \A u \in Uploaders :
    (uploadType[u] = "quiz" /\ grouped(u)) =>
      \A i \in validRows("quiz", runLines(u)) :
        LET values == valuesOf(runLines(u)[i])
        IN  questionOfRowUnder(run[u].groups,
                               IF values[1] = <<>> THEN <<"Imported Quiz">>
                               ELSE values[1],
                               values)

\* a row with two empty option cells was grouped: two options, answer "C"
C19_Witness ==
  \E u \in Uploaders :
    /\ uploadType[u] = "quiz"
    /\ grouped(u)
    /\ Len(run[u].groups) = 1
    /\ run[u].groups[1].key = <<"Title">>
    /\ run[u].groups[1].items[1].options = << <<"A">>, <<"C">> >>
    /\ run[u].groups[1].items[1].correct_answer = <<"C">>


-----------------------------------------------------------------------------
(* The cells of a line *)

\* the text without the quote characters that surround it
stripSurrounding(s) ==
  IF Len(s) >= 2 /\ s[1] = "\"" /\ s[Len(s)] = "\""
  THEN SubSeq(s, 2, Len(s) - 1) ELSE s

\* a raw cell trimmed, its surrounding quotes removed
cellValue(raw) == stripSurrounding(trim(raw))

cellValuesOf(line) ==
  LET cells == split(line, ",")
  IN  [i \in 1..Len(cells) |-> cellValue(cells[i])]

\* C20 as stated: the cells an import works with are the comma-separated
\* pieces of the line, trimmed and without their surrounding quotes, interior
\* quotes kept: every word pair a vocabulary import looks up or inserts is
\* the pair of such cells of one of its data rows.
C20_InteriorQuotesKept ==
  \A u \in Uploaders :
    (uploadType[u] = "vocabulary" /\ started(u)) =>
      \A c \in 1..Len(run[u].calls) :
        \E i \in dataRows(runLines(u)) :
          LET cells == cellValuesOf(runLines(u)[i])
          IN  /\ Len(cells) >= 2
              /\ run[u].calls[c].key = <<cells[1], cells[2]>>


-----------------------------------------------------------------------------
(* The uploading flag *)

\* the flag is set exactly while an import of the uploader is running
uploadingWhileRunning ==
  \A u \in Uploaders :
    /\ uploading[u] <=> pc[u] # "idle"
    /\ uploading[u] => run[u].outcome = "running"

\* while the flag is set the running import is neither restarted nor
\* cancelled, and when it ends the flag is reset, the file cleared on success
\* and kept on failure
uploadingStep ==
  \A u \in Uploaders :
    uploading[u] =>
      /\ run'[u].csv = run[u].csv
      /\ Len(run'[u].calls) >= Len(run[u].calls)
      /\ pc'[u] = "text" => pc[u] = "text"
      /\ IF uploading'[u]
         THEN run'[u].outcome = "running"
         ELSE /\ run'[u].outcome \in {"returned", "thrown"}
              /\ run'[u].outcome = "returned" => file'[u] = 0
              /\ run'[u].outcome = "thrown" => file'[u] = file[u]

\* C21: from the start of an import to its end the uploading flag is set and
\* afterwards it is reset, on success and on failure; while it is set no
\* second import starts from the uploader and nothing ends the running one
\* but its own return or error; the file is cleared on success and kept on
\* failure.
C21_UploadingUntilDone ==
  /\ []uploadingWhileRunning
  /\ [][uploadingStep]_vars
  /\ \A u \in Uploaders : uploading[u] ~> ~uploading[u]

\* an import failed: the flag is reset and the file still selected
C21_Witness ==
  \E u \in Uploaders :
    /\ run[u].outcome = "thrown"
    /\ ~uploading[u]
    /\ file[u] # 0
    /\ file[u] = run[u].csv


-----------------------------------------------------------------------------
(* Commas inside quotes *)

hasComma(cell) == \E i \in 1..Len(cell) : cell[i] = ","

RECURSIVE flatten(_)
flatten(ss) == IF ss = <<>> THEN <<>> ELSE Head(ss) \o flatten(Tail(ss))

\* the cells of a line as written (a quoted cell may hold commas), each then
\* cut at its commas: a cell with one embedded comma gives two cells and
\* moves the cells after it one position to the right
cutAtEmbeddedCommas(line) ==
  LET asWritten == quotedCellsFrom(line, 1, FALSE, <<>>)
      pieces  == flatten([j \in 1..Len(asWritten) |-> split(asWritten[j], ",")])
  IN  [k \in 1..Len(pieces) |-> trim(replaceQuotes(pieces[k]))]

hasEmbeddedComma(line) ==
  \E j \in 1..Len(quotedCellsFrom(line, 1, FALSE, <<>>)) :
    hasComma(quotedCellsFrom(line, 1, FALSE, <<>>)[j])

\* C22: a quiz import works with the cells of each row cut at every comma,
\* also at a comma inside a quoted cell: such a row has one cell more than
\* were asWritten and the question it contributes is made of the shifted
\* cells.
C22_EmbeddedCommaSplits ==
  \A u \in Uploaders :
    (uploadType[u] = "quiz" /\ grouped(u)) =>
      \A i \in dataRows(runLines(u)) :
        LET line   == runLines(u)[i]
            values == cutAtEmbeddedCommas(line)
        IN  /\ hasEmbeddedComma(line) =>
                 Len(values) > Len(quotedCellsFrom(line, 1, FALSE, <<>>))
            /\ ~rowRejected("quiz", values) =>
                 questionOfRowUnder(run[u].groups,
                                    IF values[1] = <<>> THEN <<"Imported Quiz">>
                                    ELSE values[1],
                                    values)

\* the row  Title,Type,"De,sc",g1,e1,A,B,C,D,A  was grouped: its question
\* text is the second half of the quoted cell and its answer the cell "D"
C22_Witness ==
  \E u \in Uploaders :
    /\ uploadType[u] = "quiz"
    /\ grouped(u)
    /\ \E i \in dataRows(runLines(u)) : hasEmbeddedComma(runLines(u)[i])
    /\ Len(run[u].groups) = 1
    /\ run[u].groups[1].items[1].question_gujarati = <<"sc">>
    /\ run[u].groups[1].items[1].options = << <<"e1">>, <<"A">>, <<"B">>, <<"C">> >>
    /\ run[u].groups[1].items[1].correct_answer = <<"D">>

-----------------------------------------------------------------------------
(* Games page (src/src/pages/Games.tsx, first component).                  *)
(*                                                                         *)
(* A handler is a closure of the render that created it: it reads the      *)
(* state of that render (view) and its functional updates apply to the     *)
(* current state (page).  A click is rendered before the next event; the   *)
(* updates of a timer callback are rendered in a later task, so that a     *)
(* click can still reach the handlers of the previous render.  Only after  *)
(* the tick that calls handleTimeUp do the two renders offer different     *)
(* handlers, so that is the one place where the commit is a separate step. *)
(* The player is signed in, and leaves the page only while no timeout and   *)
(* no call of the page is pending.                                         *)

\* games started, page reloads and failed remote calls of one behaviour
MaxPlays == 2
MaxReloads == 1
MaxGameFailures == 1

\* the player clicks in the first and in the last second of a question
ClickTimes == {TimePerQuestion, 1}

dropAt(s, i) == SubSeq(s, 1, i - 1) \o SubSeq(s, i + 1, Len(s))

\* shuffleArray: the questions in any order
shuffleArray(array) ==
  LET n == Len(array)
      orders == { p \in [1..n -> 1..n] : \A i, j \in 1..n : i # j => p[i] # p[j] }
  IN { [i \in 1..n |-> array[p[i]]] : p \in orders }

\* which of the three screens the render of state v returns
completeScreen(v) == v.gameComplete /\ v.currentGame # NoGame
gameScreen(v) == ~completeScreen(v) /\ v.currentGame # NoGame
listScreen(v) == v.currentGame = NoGame

\* the game screen reads question.options of shuffledQuestions[currentQuestion]
\* and throws when there is no such question
crashed(v) == gameScreen(v) /\ v.currentQuestion >= Len(v.shuffledQuestions)

\* shuffledQuestions[currentQuestion] of render v
questionOf(v) == v.shuffledQuestions[v.currentQuestion + 1]

\* a failed remote call is allowed while the failure budget lasts
gameCallMayFail(ok) == ok \/ log.failed < MaxGameFailures

countFailure(ok, l) == IF ok THEN l ELSE [l EXCEPT !.failed = @ + 1]

\* Start Game / Play Again (No Points) on the list, Play Again on the
\* complete screen
startGame(quiz) ==
  /\ page = view
  /\ log.plays < MaxPlays
  /\ \/ listScreen(view)
     \/ completeScreen(view) /\ quiz = view.currentGame
  /\ \E shuffled \in shuffleArray(GameQuizzes[quiz].questions) :
       page' = [page EXCEPT
                  !.play = log.plays + 1,
                  !.shuffledQuestions = shuffled,
                  !.currentGame = quiz,
                  !.currentQuestion = 0,
                  !.selectedAnswer = "",
                  !.gameSession = [score |-> 0, questionsCorrect |-> 0,
                                   totalQuestions |-> Len(shuffled)],
                  !.gameStartTime = "date",
                  !.gameComplete = FALSE,
                  !.timeLeft = TimePerQuestion,
                  !.showAnswer = FALSE,
                  !.isAnswered = FALSE]
  /\ view' = page'
  /\ log' = [log EXCEPT !.plays = @ + 1, !.left = {}, !.finished = FALSE]
  /\ UNCHANGED <<timers, finishing, fetching, quiz_attempts, points, exceptGames>>

\* Choose New Game on the complete screen
restartGame ==
  /\ page = view
  /\ completeScreen(view)
  /\ page' = [page EXCEPT !.currentGame = NoGame, !.gameComplete = FALSE]
  /\ view' = page'
  /\ UNCHANGED <<timers, finishing, fetching, quiz_attempts, points, log, exceptGames>>

\* click on an option button of the game screen
selectAnswer(option) ==
  /\ page = view
  /\ gameScreen(view) /\ ~crashed(view)
  /\ ~view.showAnswer /\ ~view.isAnswered
  /\ view.timeLeft \in ClickTimes
  /\ \E k \in 1..Len(questionOf(view).options) :
       option = questionOf(view).options[k]
  /\ option # view.selectedAnswer
  /\ page' = [page EXCEPT !.selectedAnswer = option]
  /\ view' = page'
  /\ UNCHANGED <<timers, finishing, fetching, quiz_attempts, points, log, exceptGames>>

\* the state after a correct answer
scored(session) ==
  [session EXCEPT !.score = @ + PointsPerCorrect, !.questionsCorrect = @ + 1]

\* what nextQuestion and finishGame read of the render v they were created in
closure(v) ==
  [ play |-> v.play, currentGame |-> v.currentGame,
    gameStartTime |-> v.gameStartTime,
    currentQuestion |-> v.currentQuestion,
    questions |-> Len(v.shuffledQuestions),
    gameSession |-> v.gameSession,
    completedQuizzes |-> v.completedQuizzes ]

\* the closure the 3-second timeout of submitAnswer calls nextQuestion in:
\* the render the clicked handler belongs to
closureOfSubmit == closure(view)

\* click on Submit Answer, which the game screen shows while no answer is
\* being shown
submitAnswer ==
  /\ gameScreen(view) /\ ~crashed(view)
  /\ ~view.showAnswer
  /\ view.selectedAnswer # "" /\ ~view.isAnswered
  /\ view.timeLeft \in ClickTimes
  /\ LET isCorrect == view.selectedAnswer = questionOf(view).correct_answer
     IN page' = [page EXCEPT
                   !.isAnswered = TRUE,
                   !.gameSession = IF isCorrect THEN scored(@) ELSE @,
                   !.showAnswer = TRUE]
  /\ view' = page'
  /\ timers' = Append(timers, closureOfSubmit)
  /\ UNCHANGED <<finishing, fetching, quiz_attempts, points, log, exceptGames>>

\* the condition under which the timer effect sets its interval
timerEffect(v) ==
  /\ v.currentGame # NoGame
  /\ ~v.gameComplete
  /\ ~v.showAnswer
  /\ v.timeLeft > 0
  /\ ~v.isAnswered

\* handleTimeUp of render c, called from the interval's state updater,
\* which returns 0; the screen is not yet rendered anew
handleTimeUp(c) ==
  IF c.currentGame = NoGame
    THEN /\ page' = [page EXCEPT !.timeLeft = 0]
         /\ view' = page'
         /\ UNCHANGED timers
    ELSE /\ page' = [page EXCEPT !.timeLeft = 0, !.showAnswer = TRUE]
         /\ timers' = Append(timers, closure(c))
         /\ UNCHANGED view

\* one firing of the interval of the timer effect
tick ==
  /\ page = view
  /\ ~crashed(view)
  /\ timerEffect(view)
  /\ IF page.timeLeft <= 1
       THEN handleTimeUp(view)
       ELSE /\ page' = [page EXCEPT !.timeLeft = @ - 1]
            /\ view' = page'
            /\ UNCHANGED timers
  /\ UNCHANGED <<finishing, fetching, quiz_attempts, points, log, exceptGames>>

\* the render that follows the updates of handleTimeUp
commit ==
  /\ page # view
  /\ view' = page
  /\ UNCHANGED <<page, timers, finishing, fetching, quiz_attempts, points,
                 log, exceptGames>>

\* finishGame of render c up to its first await: the insert of the attempt
finishGame(c) ==
  IF c.currentGame = NoGame \/ c.gameStartTime = NoDate
    THEN UNCHANGED finishing
    ELSE finishing' =
           Append(finishing,
                  [closure |-> c, pc |-> "insert", currentPoints |-> 0])

\* the 3-second timeout fires: nextQuestion of render timers[i]
nextQuestion(i) ==
  LET c == timers[i]
      last == ~(c.currentQuestion < c.questions - 1)
      \* a timeout left over from an earlier game is the second of its question
      repeated == c.play # page.play \/ c.currentQuestion \in log.left
      refinish == last /\ (c.play # page.play \/ log.finished)
  IN
  /\ page = view
  /\ timers' = dropAt(timers, i)
  /\ IF ~last
       THEN /\ page' = [page EXCEPT
                         !.currentQuestion = @ + 1,
                         !.selectedAnswer = "",
                         !.timeLeft = TimePerQuestion,
                         !.showAnswer = FALSE,
                         !.isAnswered = FALSE]
            /\ view' = page'
            /\ UNCHANGED finishing
       ELSE /\ finishGame(c)
            /\ UNCHANGED <<page, view>>
  /\ log' = [log EXCEPT
               !.left = IF c.play = page.play
                          THEN @ \cup {c.currentQuestion} ELSE @,
               !.finished = @ \/ (last /\ c.play = page.play),
               !.again = @ \/ repeated,
               !.refinished = @ \/ refinish]
  /\ UNCHANGED <<fetching, quiz_attempts, points, exceptGames>>

\* the end of finishGame's try block
completes(c, first) ==
  /\ page' = [page EXCEPT
               !.completedQuizzes =
                  IF first THEN @ \cup {c.currentGame} ELSE @,
               !.gameSession = c.gameSession,
               !.gameComplete = TRUE]
  /\ view' = page'

\* finishGame's catch: a toast, no state update
caught(i, l) ==
  /\ finishing' = dropAt(finishing, i)
  /\ log' = [l EXCEPT !.failed = @ + 1]
  /\ UNCHANGED <<page, view>>

\* the insert into quiz_attempts returns
attemptInsertReturns(i, ok) ==
  LET f == finishing[i]
      c == f.closure
      isAlreadyCompleted == c.currentGame \in c.completedQuizzes
  IN
  /\ page = view
  /\ f.pc = "insert"
  /\ gameCallMayFail(ok)
  /\ IF ~ok
       THEN caught(i, log) /\ UNCHANGED quiz_attempts
       ELSE /\ quiz_attempts' =
                 Append(quiz_attempts,
                        [quiz_id |-> c.currentGame,
                         score |-> c.gameSession.score,
                         max_score |-> c.gameSession.totalQuestions
                                         * PointsPerCorrect])
            /\ IF ~isAlreadyCompleted
                 THEN /\ finishing' = [finishing EXCEPT ![i].pc = "select"]
                      /\ UNCHANGED <<page, view>>
                 ELSE /\ finishing' = dropAt(finishing, i)
                      /\ completes(c, FALSE)
            /\ UNCHANGED log
  /\ UNCHANGED <<timers, fetching, points, exceptGames>>

\* the select of profiles.points returns
profileSelectReturns(i, ok) ==
  LET f == finishing[i]
  IN
  /\ page = view
  /\ f.pc = "select"
  /\ gameCallMayFail(ok)
  /\ IF ~ok
       THEN caught(i, log)
       ELSE /\ finishing' = [finishing EXCEPT ![i].pc = "update",
                                              ![i].currentPoints = points]
            /\ UNCHANGED <<page, view, log>>
  /\ UNCHANGED <<timers, fetching, quiz_attempts, points, exceptGames>>

\* the update of profiles.points returns
profileUpdateReturns(i, ok) ==
  LET f == finishing[i]
      c == f.closure
  IN
  /\ page = view
  /\ f.pc = "update"
  /\ gameCallMayFail(ok)
  /\ IF ~ok
       THEN caught(i, log) /\ UNCHANGED points
       ELSE /\ points' = f.currentPoints + c.gameSession.score
            /\ finishing' = dropAt(finishing, i)
            /\ completes(c, TRUE)
            /\ log' = [log EXCEPT !.awards =
                         Append(@, [quiz_id |-> c.currentGame,
                                    amount |-> points' - points])]
  /\ UNCHANGED <<timers, fetching, quiz_attempts, exceptGames>>

\* the player leaves the page and opens it again: fresh state, and the
\* mount effect fetches again
reload ==
  /\ page = view
  /\ timers = <<>> /\ finishing = <<>>
  /\ log.reloads < MaxReloads
  /\ page' = InitialPage
  /\ view' = page'
  /\ fetching' = TRUE
  /\ log' = [log EXCEPT !.reloads = @ + 1]
  /\ UNCHANGED <<timers, finishing, quiz_attempts, points, exceptGames>>

\* fetchCompletedQuizzes returns: the quizzes of the player's attempts, or
\* an error, which is only logged
fetchCompletedReturns(ok) ==
  /\ page = view
  /\ fetching
  /\ gameCallMayFail(ok)
  /\ fetching' = FALSE
  /\ page' = IF ok
               THEN [page EXCEPT !.completedQuizzes =
                       { quiz_attempts[k].quiz_id : k \in 1..Len(quiz_attempts) }]
               ELSE page
  /\ view' = page'
  /\ log' = countFailure(ok, log)
  /\ UNCHANGED <<timers, finishing, quiz_attempts, points, exceptGames>>

NextGames ==
  \/ \E quiz \in GameIds : startGame(quiz)
  \/ restartGame
  \/ \E option \in {"A", "B"} : selectAnswer(option)
  \/ submitAnswer
  \/ tick
  \/ commit
  \/ \E i \in 1..Len(timers) : nextQuestion(i)
  \/ \E i \in 1..Len(finishing), ok \in BOOLEAN : attemptInsertReturns(i, ok)
  \/ \E i \in 1..Len(finishing), ok \in BOOLEAN : profileSelectReturns(i, ok)
  \/ \E i \in 1..Len(finishing), ok \in BOOLEAN : profileUpdateReturns(i, ok)
  \/ reload
  \/ \E ok \in BOOLEAN : fetchCompletedReturns(ok)

\* the importer unused: nothing selected, nothing stored
InitPages ==
  /\ InitCommon
  /\ uploadType["A"] = "quiz"
  /\ user["B"] = NoUser
  /\ quizzes = <<>>
  /\ menu = {}

SpecGames == InitPages /\ [][NextGames]_vars

\* a game no player touches: the player starts games and does nothing else
NextIdle ==
  \/ \E quiz \in GameIds : startGame(quiz)
  \/ tick
  \/ commit
  \/ \E i \in 1..Len(timers) : nextQuestion(i)
  \/ \E i \in 1..Len(finishing), ok \in BOOLEAN : attemptInsertReturns(i, ok)
  \/ \E i \in 1..Len(finishing), ok \in BOOLEAN : profileSelectReturns(i, ok)
  \/ \E i \in 1..Len(finishing), ok \in BOOLEAN : profileUpdateReturns(i, ok)
  \/ \E ok \in BOOLEAN : fetchCompletedReturns(ok)

\* something of the game is due: a render, a firing of the interval, a
\* timeout, or the answer of a remote call
due ==
  \/ page # view
  \/ timerEffect(view) /\ ~crashed(view)
  \/ timers # <<>>
  \/ finishing # <<>>

\* a step of the browser or of the remote side
passes ==
  \/ tick
  \/ commit
  \/ \E i \in 1..Len(timers) : nextQuestion(i)
  \/ \E i \in 1..Len(finishing), ok \in BOOLEAN : attemptInsertReturns(i, ok)
  \/ \E i \in 1..Len(finishing), ok \in BOOLEAN : profileSelectReturns(i, ok)
  \/ \E i \in 1..Len(finishing), ok \in BOOLEAN : profileUpdateReturns(i, ok)

\* intervals and timeouts fire, renders happen and remote calls are
\* answered: nothing stays due for ever
timePasses == <>[]due => []<><<passes>>_vars

SpecIdle == InitPages /\ [][NextIdle]_vars /\ timePasses

-----------------------------------------------------------------------------
(* Time-tracking hook useTimeTracking (src/unnamed/part_008).              *)
(*                                                                         *)
(* A component that uses the hook mounts, sees the user of useAuth()       *)
(* change, and unmounts; a later mount is a new instance with fresh refs.  *)
(* A call in flight belongs to the instance that issued it and writes that *)
(* instance's refs when it returns.                                        *)

\* mounts, user changes and failed remote calls of one behaviour
MaxMounts == 2
MaxUserChanges == 2
MaxTrackFailures == 1

\* useAuth().user: nobody, or one of two users
TrackedUsers == {"", "u1", "u2"}

trackCallMayFail(ok) == ok \/ trackLog.failed < MaxTrackFailures

\* startSession of the instance in state t, up to its await
startSession(t, calls) ==
  IF t.user = ""
    THEN <<t, calls>>
    ELSE << [t EXCEPT !.startTimeRef = "date"],
            Append(calls, [kind |-> "insert", inst |-> t.inst,
                           user_id |-> t.user, id |-> NoSessionId]) >>

\* endSession of the instance in state t, up to its await
endSession(t, calls) ==
  IF t.sessionIdRef = NoSessionId \/ t.startTimeRef = NoDate
    THEN <<t, calls>>
    ELSE << t, Append(calls, [kind |-> "end", inst |-> t.inst,
                              user_id |-> t.user, id |-> t.sessionIdRef]) >>

\* the cleanup of the session effect
sessionCleanup(t, calls) ==
  IF t.sessionIdRef # NoSessionId THEN endSession(t, calls) ELSE <<t, calls>>

\* the body of the session effect
sessionEffect(t, calls) ==
  IF t.user # "" /\ t.sessionIdRef = NoSessionId
    THEN startSession(t, calls)
    ELSE <<t, calls>>

\* a component using the hook mounts while the user is u
mountHook(u) ==
  /\ ~tracker.mounted
  /\ trackLog.mounts < MaxMounts
  /\ LET fresh == [NoTracker EXCEPT !.inst = tracker.inst + 1,
                                    !.mounted = TRUE, !.user = u]
         next == sessionEffect(fresh, sessionCalls)
     IN tracker' = next[1] /\ sessionCalls' = next[2]
  /\ trackLog' = [trackLog EXCEPT !.mounts = @ + 1]
  /\ UNCHANGED <<app_usage_sessions, exceptTracking>>

\* the user changes: the effect's cleanup runs, then the effect
changeUser(u) ==
  /\ tracker.mounted
  /\ u # tracker.user
  /\ trackLog.changes < MaxUserChanges
  /\ LET cleaned == sessionCleanup(tracker, sessionCalls)
         next == sessionEffect([cleaned[1] EXCEPT !.user = u], cleaned[2])
     IN tracker' = next[1] /\ sessionCalls' = next[2]
  /\ trackLog' = [trackLog EXCEPT !.changes = @ + 1]
  /\ UNCHANGED <<app_usage_sessions, exceptTracking>>

\* the component unmounts: the effect's cleanup runs
unmountHook ==
  /\ tracker.mounted
  /\ LET cleaned == sessionCleanup(tracker, sessionCalls)
     IN /\ tracker' = [cleaned[1] EXCEPT !.mounted = FALSE]
        /\ sessionCalls' = cleaned[2]
  /\ UNCHANGED <<app_usage_sessions, trackLog, exceptTracking>>

\* the refs of the instance that issued call c, if it is the latest one
ofInstance(c, t) == IF c.inst = tracker.inst THEN t ELSE tracker

\* the insert of startSession returns
sessionInsertReturns(i, ok) ==
  LET c == sessionCalls[i]
      id == Len(app_usage_sessions) + 1
  IN
  /\ c.kind = "insert"
  /\ trackCallMayFail(ok)
  /\ sessionCalls' = dropAt(sessionCalls, i)
  /\ IF ok
       THEN /\ app_usage_sessions' =
                 Append(app_usage_sessions,
                        [user_id |-> c.user_id, session_end |-> FALSE,
                         inst |-> c.inst])
            /\ tracker' = ofInstance(c, [tracker EXCEPT
                                           !.sessionIdRef = id,
                                           !.isTracking = TRUE])
            /\ UNCHANGED trackLog
       ELSE /\ trackLog' = [trackLog EXCEPT !.failed = @ + 1]
            /\ UNCHANGED <<app_usage_sessions, tracker>>
  /\ UNCHANGED exceptTracking

\* the refs after endSession's await
sessionClosed(t) ==
  [t EXCEPT !.sessionIdRef = NoSessionId, !.startTimeRef = NoDate,
            !.isTracking = FALSE]

\* the update of endSession returns; its error is not looked at
sessionEndReturns(i, ok) ==
  LET c == sessionCalls[i]
  IN
  /\ c.kind = "end"
  /\ trackCallMayFail(ok)
  /\ sessionCalls' = dropAt(sessionCalls, i)
  /\ app_usage_sessions' =
       IF ok THEN [app_usage_sessions EXCEPT ![c.id].session_end = TRUE]
             ELSE app_usage_sessions
  /\ tracker' = ofInstance(c, sessionClosed(tracker))
  /\ trackLog' = IF ok THEN trackLog
                       ELSE [trackLog EXCEPT !.failed = @ + 1]
  /\ UNCHANGED exceptTracking

NextTracking ==
  \/ \E u \in TrackedUsers : mountHook(u)
  \/ \E u \in TrackedUsers : changeUser(u)
  \/ unmountHook
  \/ \E i \in 1..Len(sessionCalls), ok \in BOOLEAN : sessionInsertReturns(i, ok)
  \/ \E i \in 1..Len(sessionCalls), ok \in BOOLEAN : sessionEndReturns(i, ok)

SpecTracking == InitPages /\ [][NextTracking]_vars

-----------------------------------------------------------------------------
(* Timed Quiz page (src/unnamed/part_005).  The player is signed in.  The   *)
(* interval of the timer effect is set anew when selectedQuiz or           *)
(* timeRemaining changes, and calls the handleSubmitQuiz of that render.   *)

\* quizzes started, clicks on Submit Quiz and failed inserts of one behaviour
MaxStarts == 1
MaxSubmitClicks == 2
MaxQuizFailures == 1

\* setTimeRemaining(quiz.time_limit * 60)
SecondsPerMinute == 60

\* the player clicks in the first and in the last second of a quiz
QuizClickTimes == {TimedQuizzes[1].time_limit * SecondsPerMinute, 1, 0}

\* the selected quiz
selected == TimedQuizzes[timed.selectedQuiz]

onQuizScreen == timed.selectedQuiz # NoQuiz /\ timed.timeRemaining \in QuizClickTimes

\* startQuiz: Start Quiz on the list
startQuiz(quiz) ==
  /\ timed.selectedQuiz = NoQuiz
  /\ timedLog.starts < MaxStarts
  /\ timed' = [ start |-> timedLog.starts + 1,
                selectedQuiz |-> quiz,
                currentQuestion |-> 0,
                answers |-> NoAnswers(Len(TimedQuizzes[quiz].questions)),
                quizStartTime |-> "date",
                timeRemaining |-> TimedQuizzes[quiz].time_limit * SecondsPerMinute,
                effectAnswers |-> NoAnswers(Len(TimedQuizzes[quiz].questions)) ]
  /\ timedLog' = [timedLog EXCEPT !.starts = @ + 1]
  /\ UNCHANGED <<submitting, timed_attempts, exceptQuizPage>>

\* click on an option of the current question
handleAnswerSelect(answer) ==
  /\ onQuizScreen
  /\ \E k \in 1..Len(selected.questions[timed.currentQuestion + 1].options) :
       answer = selected.questions[timed.currentQuestion + 1].options[k]
  /\ timed.answers[timed.currentQuestion] # answer
  /\ timed' = [timed EXCEPT !.answers[timed.currentQuestion] = answer]
  /\ UNCHANGED <<submitting, timed_attempts, timedLog, exceptQuizPage>>

\* Previous
previousQuestion ==
  /\ onQuizScreen
  /\ timed.currentQuestion # 0
  /\ timed' = [timed EXCEPT !.currentQuestion = IF @ - 1 > 0 THEN @ - 1 ELSE 0]
  /\ UNCHANGED <<submitting, timed_attempts, timedLog, exceptQuizPage>>

\* Next, shown on every question but the last, enabled once it is answered
followingQuestion ==
  /\ onQuizScreen
  /\ timed.currentQuestion # Len(selected.questions) - 1
  /\ timed.answers[timed.currentQuestion] # ""
  /\ timed' = [timed EXCEPT !.currentQuestion = @ + 1]
  /\ UNCHANGED <<submitting, timed_attempts, timedLog, exceptQuizPage>>

\* Exit Quiz
exitQuiz ==
  /\ onQuizScreen
  /\ timed' = [timed EXCEPT !.selectedQuiz = NoQuiz]
  /\ UNCHANGED <<submitting, timed_attempts, timedLog, exceptQuizPage>>

\* the number of questions of quiz answered correctly in given
scoreOf(quiz, given) ==
  Cardinality({ k \in 1..Len(quiz.questions) :
                  given[k - 1] = quiz.questions[k].correct_answer })

\* handleSubmitQuiz of a render whose answers are given, up to its await;
\* chosen (ghost) is what the player has selected when it is called
handleSubmitQuiz(given) ==
  IF timed.selectedQuiz = NoQuiz \/ timed.quizStartTime = NoDate
    THEN submitting
    ELSE Append(submitting,
                [ start |-> timed.start,
                  score |-> scoreOf(selected, given),
                  max_score |-> Len(selected.questions),
                  chosen |-> scoreOf(selected, timed.answers) ])

\* click on Submit Quiz, shown on the last question
clickSubmitQuiz ==
  /\ onQuizScreen
  /\ timed.currentQuestion = Len(selected.questions) - 1
  /\ timedLog.clicks < MaxSubmitClicks
  /\ submitting' = handleSubmitQuiz(timed.answers)
  /\ timedLog' = [timedLog EXCEPT !.clicks = @ + 1]
  /\ UNCHANGED <<timed, timed_attempts, exceptQuizPage>>

\* one firing of the interval of the timer effect
tickQuiz ==
  /\ timed.selectedQuiz # NoQuiz
  /\ timed.timeRemaining > 0
  /\ IF timed.timeRemaining <= 1
       THEN /\ submitting' = handleSubmitQuiz(timed.effectAnswers)
            /\ timed' = [timed EXCEPT !.timeRemaining = 0,
                                      !.effectAnswers = timed.answers]
       ELSE /\ timed' = [timed EXCEPT !.timeRemaining = @ - 1,
                                      !.effectAnswers = timed.answers]
            /\ UNCHANGED submitting
  /\ UNCHANGED <<timed_attempts, timedLog, exceptQuizPage>>

\* the insert into quiz_attempts returns
timedInsertReturns(i, ok) ==
  /\ ok \/ timedLog.failed < MaxQuizFailures
  /\ submitting' = dropAt(submitting, i)
  /\ IF ok
       THEN /\ timed_attempts' = Append(timed_attempts, submitting[i])
            /\ timed' = [timed EXCEPT !.selectedQuiz = NoQuiz]
            /\ UNCHANGED timedLog
       ELSE /\ timedLog' = [timedLog EXCEPT !.failed = @ + 1]
            /\ UNCHANGED <<timed, timed_attempts>>
  /\ UNCHANGED exceptQuizPage

NextQuizPage ==
  \/ \E quiz \in 1..Len(TimedQuizzes) : startQuiz(quiz)
  \/ \E answer \in {"A", "B"} : handleAnswerSelect(answer)
  \/ previousQuestion
  \/ followingQuestion
  \/ exitQuiz
  \/ clickSubmitQuiz
  \/ tickQuiz
  \/ \E i \in 1..Len(submitting), ok \in BOOLEAN : timedInsertReturns(i, ok)

SpecQuizPage == InitPages /\ [][NextQuizPage]_vars

-----------------------------------------------------------------------------
(* Word Bank page (src/unnamed/part_003) and the trigger on_word_learned   *)
(* (src/unnamed/part_000).  The learner is signed in.                      *)

\* marks and failed remote calls of one behaviour
MaxMarks == 3
MaxBankFailures == 1

\* SET points = COALESCE(points, 0) + 5
WordPoints == 5

\* wordBankItems[currentIndex], as an index into WordBankItems
currentItem == bank.currentIndex + 1

\* prev < length - 1 ? prev + 1 : 0
nextIndex(prev, length) == IF prev < length - 1 THEN prev + 1 ELSE 0

\* Show Meaning
showMeaning ==
  /\ ~bank.showAnswer
  /\ bank' = [bank EXCEPT !.showAnswer = TRUE]
  /\ UNCHANGED <<marking, refreshing, learning_progress, bankPoints, bankLog,
                 exceptWordBank>>

\* markWordLearned up to its await: Need Practice (learned = false) or
\* Got It! (learned = true), shown once the meaning is shown
markWordLearned(learned) ==
  LET existingProgress == bank.learningProgress[currentItem]
  IN
  /\ bank.showAnswer
  /\ bankLog.marks < MaxMarks
  /\ marking' =
       Append(marking,
              IF existingProgress.exists
                THEN [path |-> "update", content_id |-> currentItem,
                      is_learned |-> learned,
                      times_reviewed |-> existingProgress.times_reviewed + 1]
                ELSE [path |-> "insert", content_id |-> currentItem,
                      is_learned |-> learned, times_reviewed |-> 1])
  /\ bankLog' = [bankLog EXCEPT !.marks = @ + 1]
  /\ UNCHANGED <<bank, refreshing, learning_progress, bankPoints,
                 exceptWordBank>>

\* update_words_learned_count, the function of the trigger on_word_learned
update_words_learned_count(old, new, pts) ==
  IF new.is_learned /\ ~old.is_learned THEN pts + WordPoints ELSE pts

\* the triggers that fire for a write of learning_progress: on_word_learned
\* is an AFTER UPDATE trigger
on_word_learned(path, old, new, pts) ==
  IF path = "update" THEN update_words_learned_count(old, new, pts) ELSE pts

\* the update or insert of markWordLearned returns; an insert of a second
\* row for the same item violates UNIQUE(user_id, content_type, content_id)
wordMarkReturns(i, ok) ==
  LET c == marking[i]
      old == learning_progress[c.content_id]
      new == [exists |-> TRUE, is_learned |-> c.is_learned,
              times_reviewed |-> c.times_reviewed]
      done == ok /\ ~(c.path = "insert" /\ old.exists)
  IN
  /\ ok \/ bankLog.failed < MaxBankFailures
  /\ marking' = dropAt(marking, i)
  /\ IF done
       THEN /\ learning_progress' = [learning_progress EXCEPT ![c.content_id] = new]
            /\ bankPoints' = on_word_learned(c.path, old, new, bankPoints)
            /\ bank' = [bank EXCEPT
                          !.showAnswer = FALSE,
                          !.currentIndex = nextIndex(@, Len(WordBankItems))]
            /\ refreshing' = TRUE
            /\ bankLog' = [bankLog EXCEPT !.marked =
                             Append(@, [path |-> c.path,
                                        learned |-> c.is_learned,
                                        wasLearned |-> old.is_learned,
                                        gain |-> bankPoints' - bankPoints])]
       ELSE /\ bankLog' = IF ok THEN bankLog
                                ELSE [bankLog EXCEPT !.failed = @ + 1]
            /\ UNCHANGED <<learning_progress, bankPoints, bank, refreshing>>
  /\ UNCHANGED exceptWordBank

\* fetchLearningProgress returns: the learner's rows, or an error, which is
\* only logged
progressFetchReturns(ok) ==
  /\ refreshing
  /\ ok \/ bankLog.failed < MaxBankFailures
  /\ refreshing' = FALSE
  /\ bank' = IF ok THEN [bank EXCEPT !.learningProgress = learning_progress]
                   ELSE bank
  /\ bankLog' = IF ok THEN bankLog ELSE [bankLog EXCEPT !.failed = @ + 1]
  /\ UNCHANGED <<marking, learning_progress, bankPoints, exceptWordBank>>

NextWordBank ==
  \/ showMeaning
  \/ \E learned \in BOOLEAN : markWordLearned(learned)
  \/ \E i \in 1..Len(marking), ok \in BOOLEAN : wordMarkReturns(i, ok)
  \/ \E ok \in BOOLEAN : progressFetchReturns(ok)

SpecWordBank == InitPages /\ [][NextWordBank]_vars

-----------------------------------------------------------------------------
(* Flashcards page (src/src/pages/Flashcards.tsx).  The learner is signed  *)
(* in and the cards are loaded.                                            *)

\* marks and failed updates of one behaviour
MaxCardMarks == 3
MaxCardFailures == 1

\* Show Answer
showCardAnswer ==
  /\ ~deck.showAnswer
  /\ deck' = [deck EXCEPT !.showAnswer = TRUE]
  /\ UNCHANGED <<answering, flashcards, deckLog, exceptCards>>

\* markAnswer up to its await: the two buttons shown once the answer is shown
markAnswer(correct) ==
  LET currentCard == deck.flashcards[deck.currentIndex + 1]
  IN
  /\ deck.showAnswer
  /\ deckLog.marks < MaxCardMarks
  /\ deck.currentIndex < Len(deck.flashcards)
  /\ answering' =
       Append(answering,
              [id |-> deck.currentIndex + 1,
               correct |-> correct,
               times_reviewed |-> currentCard.times_reviewed + 1,
               is_learned |-> IF correct THEN TRUE ELSE currentCard.is_learned])
  /\ deckLog' = [deckLog EXCEPT !.marks = @ + 1]
  /\ UNCHANGED <<deck, flashcards, exceptCards>>

\* what markAnswer does to its state after a successful update
cardMarked(c) ==
  [deck EXCEPT
     !.showAnswer = FALSE,
     !.currentIndex = nextIndex(@, Len(deck.flashcards)),
     !.flashcards[c.id] =
        [@ EXCEPT !.times_reviewed = @ + 1,
                  !.is_learned = c.correct \/ @]]

\* the update of flashcards returns
cardUpdateReturns(i, ok) ==
  LET c == answering[i]
  IN
  /\ ok \/ deckLog.failed < MaxCardFailures
  /\ answering' = dropAt(answering, i)
  /\ IF ok
       THEN /\ flashcards' = [flashcards EXCEPT ![c.id] =
                                [is_learned |-> c.is_learned,
                                 times_reviewed |-> c.times_reviewed]]
            /\ deck' = cardMarked(c)
            /\ deckLog' = [deckLog EXCEPT
                             !.marked[c.id] = @ + 1,
                             !.unlearned = @ \/ (flashcards[c.id].is_learned
                                                   /\ ~c.is_learned)]
       ELSE /\ deckLog' = [deckLog EXCEPT !.failed = @ + 1]
            /\ UNCHANGED <<flashcards, deck>>
  /\ UNCHANGED exceptCards

NextFlashcards ==
  \/ showCardAnswer
  \/ \E correct \in BOOLEAN : markAnswer(correct)
  \/ \E i \in 1..Len(answering), ok \in BOOLEAN : cardUpdateReturns(i, ok)

SpecFlashcards == InitPages /\ [][NextFlashcards]_vars

-----------------------------------------------------------------------------
(* Properties of the Games page *)

\* the updates of profiles.points made for quiz q that changed the points
awardsFor(q) ==
  { k \in 1..Len(log.awards) :
      log.awards[k].quiz_id = q /\ log.awards[k].amount # 0 }

\* C23: over all plays and replays of a quiz by the player, profiles.points
\* is increased for that quiz at most once
C23_PointsAtMostOncePerQuiz ==
  \A q \in GameIds : Cardinality(awardsFor(q)) <= 1

\* C24: in a running game nextQuestion is invoked at most once for every
\* question index, whether the question ended by a submitted answer or by
\* the timer, so that no question is skipped, currentQuestion stays below
\* the number of shuffled questions, and finishGame is invoked at most once
\* per game
C24_EachQuestionLeftOnce ==
  /\ ~log.again
  /\ ~log.refinished
  /\ page.currentGame # NoGame =>
       page.currentQuestion < Len(page.shuffledQuestions)

\* the session of the running game: the score is ten times the number of
\* correct answers, which is at most the number of questions, and a question
\* is counted at most once
C25_SessionConsistent ==
  LET session == page.gameSession
  IN /\ session.score = PointsPerCorrect * session.questionsCorrect
     /\ session.questionsCorrect <= session.totalQuestions
     /\ gameScreen(page) =>
          session.questionsCorrect
            <= page.currentQuestion + (IF page.isAnswered THEN 1 ELSE 0)
     /\ \A k \in 1..Len(quiz_attempts) :
          quiz_attempts[k].max_score =
            PointsPerCorrect * Len(GameQuizzes[quiz_attempts[k].quiz_id].questions)

\* a finishGame call of the game on the screen, which has not completed
savingThisGame(f) ==
  /\ f.closure.play = page.play
  /\ page.currentGame # NoGame
  /\ ~page.gameComplete

\* C25: in every state of a game score = 10 x questionsCorrect and
\* questionsCorrect <= totalQuestions, each question contributes at most
\* once, and the attempt finishGame saves records the score of the game,
\* with max_score = 10 x totalQuestions
C25_ScoreKeptAndSaved ==
  /\ C25_SessionConsistent
  /\ \A k \in 1..Len(finishing) :
       savingThisGame(finishing[k]) =>
         /\ finishing[k].closure.gameSession.score = page.gameSession.score
         /\ finishing[k].closure.gameSession.totalQuestions
              = page.gameSession.totalQuestions

\* a game is on the screen and has not completed
playing == page.currentGame # NoGame /\ ~page.gameComplete

\* the timer of an untouched game: timeLeft stays in 0..15 and does not
\* decrease while an answer is being shown
C26_TimerRunsDown ==
  /\ [](page.timeLeft \in 0..TimePerQuestion)
  /\ [][page.showAnswer /\ page'.showAnswer
          => page'.timeLeft >= page.timeLeft]_vars

\* an untouched game completes unless a call of finishGame fails
C26_CompletesWhenSaved ==
  (playing /\ ~fetching /\ log.failed = 0)
     ~> (page.gameComplete \/ log.failed > 0)

\* an untouched game has something due as long as no call of finishGame has
\* failed
C26_SavedGameNeverStuck == (playing /\ log.failed = 0) => due

\* C26: a started game that the player does not touch reaches the complete
\* state: the timer runs from 15 to 0 for each question, the answer is
\* revealed, the game advances, and after the last question gameComplete
\* becomes true.  As long as the game has not completed, one of its steps is
\* therefore due: a firing of the interval, a render, the timeout that
\* advances the game, or the answer of a remote call of finishGame.
C26_IdleGameCompletes == playing => due

-----------------------------------------------------------------------------
(* Properties of the time-tracking hook *)

\* the sessions hook instance n inserted that have no session_end
openSessions(n) ==
  { k \in 1..Len(app_usage_sessions) :
      app_usage_sessions[k].inst = n /\ ~app_usage_sessions[k].session_end }

\* the hook has nothing left to do: unmounted, and no call in flight
trackingOver == ~tracker.mounted /\ sessionCalls = <<>>

\* once the component has unmounted and every call has returned, every
\* session the hook inserted has been ended
C27_EndedAfterUnmount ==
  trackingOver => \A n \in 1..tracker.inst : openSessions(n) = {}

\* a hook instance never has two sessions open at once
C27_AtMostOneOpen ==
  \A n \in 1..tracker.inst : Cardinality(openSessions(n)) <= 1

\* C27: every session the hook starts is ended when the component unmounts
\* or the user changes, also when that happens while the insert of
\* startSession is in flight, and a hook instance never has two sessions
\* open at once
C27_SessionsEndedOneOpen ==
  /\ C27_EndedAfterUnmount
  /\ C27_AtMostOneOpen

-----------------------------------------------------------------------------
(* Properties of the timed Quiz page *)

\* the attempts recorded for the quiz started as number n
attemptsOf(n) ==
  { k \in 1..Len(timed_attempts) : timed_attempts[k].start = n }

\* at most one attempt is recorded per started quiz
C28_AtMostOneRow ==
  \A n \in 1..timedLog.starts : Cardinality(attemptsOf(n)) <= 1

\* the recorded score is the number of questions whose selected answer was
\* the correct one when the quiz was submitted
C28_ScoreIsChosen ==
  \A k \in 1..Len(timed_attempts) :
    timed_attempts[k].score = timed_attempts[k].chosen

\* 0 <= score <= max_score = number of questions
C28_ScoreInRange ==
  \A k \in 1..Len(timed_attempts) :
    /\ timed_attempts[k].score \in 0..timed_attempts[k].max_score
    /\ timed_attempts[k].max_score = Len(TimedQuizzes[1].questions)

\* C28: at most one quiz_attempts row is recorded per started quiz (manual
\* and automatic submit never both insert), its score is the number of
\* questions answered correctly, and 0 <= score <= max_score = number of
\* questions
C28_OneAttemptPerStart ==
  /\ C28_AtMostOneRow
  /\ C28_ScoreIsChosen
  /\ C28_ScoreInRange


-----------------------------------------------------------------------------
(* Properties of the Word Bank page *)

\* the marks as learned that succeeded
learnedMarks == {k \in 1..Len(bankLog.marked) : bankLog.marked[k].learned}

\* C29: every successful mark as learned of a word that was not learned adds
\* exactly 5 points to the profile, and every successful mark as learned of a
\* word that is already learned adds nothing, whether the mark updates the
\* learning_progress row or inserts it.
C29_LearnedEarnsFive ==
  \A k \in learnedMarks :
    bankLog.marked[k].gain =
      IF bankLog.marked[k].wasLearned THEN 0 ELSE WordPoints

\* C29, update path: a mark that updates a row to learned adds 5 points when
\* the row was not learned, and nothing when it was.
C29_UpdateEarnsFive ==
  \A k \in learnedMarks :
    bankLog.marked[k].path = "update" =>
      bankLog.marked[k].gain =
        IF bankLog.marked[k].wasLearned THEN 0 ELSE WordPoints

\* a mark that updated a row that was not learned to learned has succeeded
C29_UpdateEarned ==
  \E k \in learnedMarks :
    bankLog.marked[k].path = "update" /\ ~bankLog.marked[k].wasLearned

\* C29, learned again: a mark as learned of a learned word adds nothing.
C29_LearnedAgainAddsNothing ==
  \A k \in learnedMarks :
    bankLog.marked[k].wasLearned => bankLog.marked[k].gain = 0

\* C29, insert path: a mark that inserts the row adds no points.
C29_InsertEarnsNothing ==
  \A k \in 1..Len(bankLog.marked) :
    bankLog.marked[k].path = "insert" => bankLog.marked[k].gain = 0

-----------------------------------------------------------------------------
(* Properties of the Flashcards page *)

\* C30: no flashcards row goes from learned back to not learned, and the
\* times_reviewed of each row is the number of successful marks of the card.
C30_LearnedKeptAndCounted ==
  /\ ~deckLog.unlearned
  /\ \A k \in 1..Len(flashcards) :
       flashcards[k].times_reviewed = deckLog.marked[k]

\* C30, the page's copy: the times_reviewed of each card of the local list
\* is the number of successful marks of the card.
C30_LocalCardKept ==
  \A k \in 1..Len(deck.flashcards) :
    deck.flashcards[k].times_reviewed = deckLog.marked[k]

\* C30, is_learned alone: no flashcards row goes from learned back to not
\* learned.
C30_NeverUnlearned == ~deckLog.unlearned

\* C30, times_reviewed alone: the times_reviewed of each flashcards row is
\* the number of successful marks of the card.
C30_CountedOncePerMark ==
  \A k \in 1..Len(flashcards) :
    flashcards[k].times_reviewed = deckLog.marked[k]

\* C30: currentIndex stays within 0..length-1.
C30_IndexInRange ==
  deck.currentIndex \in 0..(Len(deck.flashcards) - 1)

\* C30: a successful mark moves currentIndex to the next card, and from the
\* last card to 0.
C30_IndexWraps ==
  [][deckLog'.marked # deckLog.marked =>
       deck'.currentIndex =
         IF deck.currentIndex = Len(deck.flashcards) - 1
           THEN 0 ELSE deck.currentIndex + 1]_vars

\* C30: a failed update leaves currentIndex, showAnswer and the local card
\* list unchanged.
C30_FailureChangesNothing ==
  [][deckLog'.failed # deckLog.failed => deck' = deck]_vars

=============================================================================
